---- MODULE Spec2Model ----
(***************************************************************************)
(* Audit-log / change-tracking pipeline of the office-hub-pro dashboard:   *)
(* the employees table, its row-level-security policies and triggers, the  *)
(* log_employee_change() trigger function and the employee_audit_log       *)
(* table with its foreign key to employees.                                *)
(*                                                                         *)
(* One statement (INSERT / UPDATE / DELETE on employees) runs at a time,   *)
(* as a transaction split into the phases PostgreSQL runs it in: policy    *)
(* evaluation, BEFORE ROW triggers, the row operation with its constraint  *)
(* checks and referential actions, AFTER ROW triggers, then COMMIT or      *)
(* ROLLBACK.  employees/audit are the committed tables; txEmployees and    *)
(* txAudit are the tables as the running transaction sees them.            *)
(***************************************************************************)
EXTENDS Integers, Sequences, FiniteSets, TLC

\* ------------------------------------------------------------------------
\* Bounds
\* ------------------------------------------------------------------------
\* Number of transactions started in one behaviour; now() of a transaction
\* is the number of the transaction.
MaxClock == 3
\* Largest record id handed out (id 1 is the record that predates the
\* audit log).
MaxId == 3

\* ------------------------------------------------------------------------
\* SQL values.  Every value is a record [k, s, n] so that values of
\* different SQL types can be compared.
\* ------------------------------------------------------------------------
Null == [k |-> "null", s |-> "", n |-> 0]
Text(str) == [k |-> "text", s |-> str, n |-> 0]
Bool(b) == [k |-> "bool", s |-> "", n |-> IF b THEN 1 ELSE 0]
Ts(t) == [k |-> "ts", s |-> "", n |-> t]
RowId(i) == [k |-> "uuid", s |-> "employee", n |-> i]
UserId(u) == [k |-> "uuid", s |-> u, n |-> 0]
Jsonb(str) == [k |-> "jsonb", s |-> str, n |-> 0]

\* JSON values: to_jsonb() of a column value.  Text, timestamps and uuids
\* become JSON strings, booleans JSON booleans, NULL the JSON null, a jsonb
\* column its own JSON array.
JsonOf(v) ==
  CASE v.k = "null" -> [k |-> "jnull", s |-> "", n |-> 0]
    [] v.k = "bool" -> [k |-> "jbool", s |-> "", n |-> v.n]
    [] v.k = "text" -> [k |-> "jstr", s |-> v.s, n |-> 0]
    [] v.k = "ts" -> [k |-> "jstr", s |-> "timestamp", n |-> v.n]
    [] v.k = "uuid" -> [k |-> "jstr", s |-> v.s, n |-> v.n]
    [] v.k = "jsonb" -> [k |-> "jarr", s |-> v.s, n |-> 0]

\* The text of a JSON value as jsonb_each_text() / ->> returns it: a string
\* is its content, a boolean is the text true or false, the JSON null is
\* the SQL NULL.
JsonText(j) ==
  CASE j.k = "jnull" -> Null
    [] j.k = "jbool" -> Text(IF j.n = 1 THEN "true" ELSE "false")
    [] j.k = "jstr" -> [k |-> "text", s |-> j.s, n |-> j.n]
    [] j.k = "jarr" -> [k |-> "text", s |-> j.s, n |-> 0]

\* A jsonb column: the SQL NULL, or a JSON object (a function from keys).
JsonbNull == [null |-> TRUE, obj |-> <<>>]
JsonbObj(f) == [null |-> FALSE, obj |-> f]

\* ------------------------------------------------------------------------
\* Schema
\* ------------------------------------------------------------------------
\* Columns of public.employees kept in the model.
Fields == {"id", "name", "username", "internet_access",
           "created_by", "created_at", "updated_at"}

\* to_jsonb(ROW)
ToJsonb(row) == [f \in DOMAIN row |-> JsonOf(row[f])]

\* auth.users
Users == {"admin", "emp", "legacy"}

\* Values a client sends
Names == {Text("Alice"), Null}
Usernames == {Text("u1"), Text("u2")}
Flags == {Bool(TRUE), Bool(FALSE)}

VARIABLES
  users,        \* auth.users
  employees,    \* public.employees, committed: a set of rows
  audit,        \* public.employee_audit_log, committed: rows in insert order
  profiles,     \* public.profiles: user -> [email, full_name], for users having a row
  roles,        \* public.user_roles: set of <<user, role>>
  txEmployees,  \* employees as seen by the running transaction
  txAudit,      \* employee_audit_log as seen by the running transaction
  tx,           \* the running statement
  pc,           \* phase of the running statement
  clock,        \* transactions started so far
  nextId,       \* next record id gen_random_uuid() hands out
  history,      \* committed row mutations, in commit order
  \* concurrent updates of one record
  cRow,         \* the committed version of the record
  cVersions,    \* updated_at of the committed versions, in commit order
  cSess,        \* session -> its transaction
  cLock,        \* the session holding the row lock, "" when free
  cClock,       \* wall clock
  \* the edit form, the delete dialog and the import page
  ui,           \* the component running a request, and what it shows
  invocations,  \* requests sent to send-employee-update-notification
  notif,        \* the notification request the form is awaiting
  \* the edge function send-employee-update-notification
  nReq,         \* the request being handled
  nDir,         \* user_roles / profiles as the service-role client reads them
  nPc,          \* position of the handler
  nChanges,     \* the handler's changes array
  nSent,        \* calls of resend.emails.send: the recipient lists
  nResp,        \* the response returned
  \* concurrent transactions on the records and the audit log
  kRows,        \* record id -> its committed row, NoRow when there is none
  kAudit,       \* employee_audit_log, committed: rows in commit order
  kSess,        \* session -> its transaction
  kLock,        \* record id -> the session holding its row lock, "" when free
  kClock,       \* wall clock
  kNextId,      \* next record id gen_random_uuid() hands out
  \* the employee table with its realtime subscription
  rtStore,      \* record id -> version in the store: 0 not inserted yet, -1 deleted
  rtList,       \* the component's employees state: a list of [id, ver]
  rtFetch,      \* the calls of fetchEmployees: [st, data]
  rtEvents,     \* change events not yet delivered to the callback, oldest first
  rtChanges,    \* changes of the store so far
  \* statements on public.user_roles
  rStmt,        \* the last statement on user_roles and its result
  \* the import page
  imPc,         \* position of handleFileUpload
  imImporting,  \* the importing state
  imStatus,     \* the importStatus state
  imTotal,      \* total
  imSuccess,    \* success
  imFailed,     \* failed
  imErrors,     \* errors: the row number each message names
  imOutcome,    \* what happened to each row attempted so far, in sheet order
  imToasts,     \* toasts of the running or last import
  \* the ping checker
  pgAddress,    \* the ipAddress state
  pgPc,         \* position of checkPing
  pgLoading,    \* the loading state
  pgResult,     \* the result state
  pgSuccess,    \* success
  pgResponseTime, \* responseTime
  pgElapsed,    \* performance.now() - startTime, in ms
  pgCompleted,  \* protocols whose request completed without error
  pgToast       \* title of the last toast

storeVars == <<users, employees, audit, profiles, roles, txEmployees, txAudit, tx, pc,
               clock, nextId, history>>
concVars == <<cRow, cVersions, cSess, cLock, cClock>>
appVars == <<ui, invocations, notif>>
notifyVars == <<nReq, nDir, nPc, nChanges, nSent, nResp>>

chainVars == <<kRows, kAudit, kSess, kLock, kClock, kNextId>>
rtVars == <<rtStore, rtList, rtFetch, rtEvents, rtChanges>>
roleVars == <<rStmt>>
imVars == <<imPc, imImporting, imStatus, imTotal, imSuccess, imFailed, imErrors,
            imOutcome, imToasts>>
pingVars == <<pgAddress, pgPc, pgLoading, pgResult, pgSuccess, pgResponseTime,
              pgElapsed, pgCompleted, pgToast>>
extraVars == <<chainVars, rtVars, roleVars, imVars, pingVars>>

vars == <<storeVars, concVars, appVars, notifyVars, extraVars>>

\* ------------------------------------------------------------------------
\* Roles and row-level-security policies
\* ------------------------------------------------------------------------
\* public.has_role(_user_id, _role)
has_role(u, r) == <<u, r>> \in roles

\* "Authenticated users can insert employees": WITH CHECK (auth.uid() = created_by)
EmployeesInsertCheck(caller, row) == row.created_by = UserId(caller)

\* Mutant: every authenticated user may update.
EmployeesUpdateUsing_Anyone(caller, row) == TRUE

\* "Admins can update all employees" OR "Users can update employees they created"
EmployeesUpdateUsing(caller, row) ==
  has_role(caller, "admin") \/ row.created_by = UserId(caller)

\* Mutant: the owner of a record may delete it too.
EmployeesDeleteUsing_Owner(caller, row) ==
  has_role(caller, "admin") \/ row.created_by = UserId(caller)

\* "Admins can delete employees"
EmployeesDeleteUsing(caller, row) == has_role(caller, "admin")

\* Mutant: a policy that lets admins manage the audit log.
AuditPolicies_AdminAll ==
  { [name |-> "Admins can view all audit logs", cmd |-> "SELECT", using |-> "admin"],
    [name |-> "Users can view audit logs for records they created", cmd |-> "SELECT",
     using |-> "author"],
    [name |-> "Admins can manage audit logs", cmd |-> "ALL", using |-> "admin"] }

\* Mutant: the second SELECT policy lets every user read every entry.
AuditPolicies_ReadAll ==
  { [name |-> "Admins can view all audit logs", cmd |-> "SELECT", using |-> "admin"],
    [name |-> "Users can view audit logs for records they created", cmd |-> "SELECT",
     using |-> "true"] }

\* Policies of employee_audit_log: SELECT only.
AuditPolicies ==
  { [name |-> "Admins can view all audit logs", cmd |-> "SELECT", using |-> "admin"],
    [name |-> "Users can view audit logs for records they created", cmd |-> "SELECT",
     using |-> "author"] }

\* Whether some policy of employee_audit_log lets caller run cmd on entry.
AuditAllowed(cmd, caller, entry) ==
  \E p \in AuditPolicies :
    /\ p.cmd \in {cmd, "ALL"}
    /\ \/ p.using = "admin" /\ has_role(caller, "admin")
       \/ p.using = "author" /\ entry.changed_by = UserId(caller)
       \/ p.using = "true"

\* ------------------------------------------------------------------------
\* Triggers on public.employees, as left by the last migration
\* ------------------------------------------------------------------------
\* Mutant: the audit trigger for UPDATE is missing.
Triggers_NoUpdateAudit ==
  { [name |-> "employee_audit_insert", timing |-> "AFTER", event |-> "INSERT",
     fn |-> "log_employee_change"],
    [name |-> "employee_audit_delete", timing |-> "BEFORE", event |-> "DELETE",
     fn |-> "log_employee_change"],
    [name |-> "update_employees_updated_at", timing |-> "BEFORE", event |-> "UPDATE",
     fn |-> "update_updated_at_column"] }

\* Mutant: the audit trigger for DELETE fires AFTER DELETE.
Triggers_AfterDelete ==
  { [name |-> "employee_audit_insert", timing |-> "AFTER", event |-> "INSERT",
     fn |-> "log_employee_change"],
    [name |-> "employee_audit_update", timing |-> "AFTER", event |-> "UPDATE",
     fn |-> "log_employee_change"],
    [name |-> "employee_audit_delete", timing |-> "AFTER", event |-> "DELETE",
     fn |-> "log_employee_change"],
    [name |-> "update_employees_updated_at", timing |-> "BEFORE", event |-> "UPDATE",
     fn |-> "update_updated_at_column"] }

Triggers ==
  { [name |-> "employee_audit_insert", timing |-> "AFTER", event |-> "INSERT",
     fn |-> "log_employee_change"],
    [name |-> "employee_audit_update", timing |-> "AFTER", event |-> "UPDATE",
     fn |-> "log_employee_change"],
    [name |-> "employee_audit_delete", timing |-> "BEFORE", event |-> "DELETE",
     fn |-> "log_employee_change"],
    [name |-> "update_employees_updated_at", timing |-> "BEFORE", event |-> "UPDATE",
     fn |-> "update_updated_at_column"] }

Fires(timing, event, fn) ==
  \E t \in Triggers : t.timing = timing /\ t.event = event /\ t.fn = fn

\* Mutant: the foreign key cascades the delete.
FkOnDelete_Cascade == "CASCADE"

\* employee_audit_log_employee_id_fkey ... ON DELETE <action>
FkOnDelete == "SET NULL"

\* update_updated_at_column(): NEW.updated_at = NOW()
update_updated_at_column(new, now) == [new EXCEPT !.updated_at = Ts(now)]

\* ------------------------------------------------------------------------
\* log_employee_change()
\* ------------------------------------------------------------------------
\* jsonb_each_text(to_jsonb(row)): key -> text value
EachText(row) == [key \in DOMAIN row |-> JsonText(ToJsonb(row)[key])]

\* A side of the FULL OUTER JOIN ... USING (key): a key missing on this
\* side has the value NULL.
JoinValue(t, key) == IF key \in DOMAIN t THEN t[key] ELSE Null

\* Mutant: the subquery does not filter updated_at out.
ChangedKeys_NoExclusion(old, new) ==
  { key \in DOMAIN EachText(old) \cup DOMAIN EachText(new) :
      JoinValue(EachText(old), key) # JoinValue(EachText(new), key) }

\* The keys the subquery changed_keys returns.
ChangedKeys(old, new) ==
  { key \in DOMAIN EachText(old) \cup DOMAIN EachText(new) :
      /\ JoinValue(EachText(old), key) # JoinValue(EachText(new), key)
      /\ key \notin {"updated_at"} }

\* Mutant: the aggregate is coalesced to the empty object.
ChangesJson_Coalesce(old, new) ==
  JsonbObj([key \in ChangedKeys(old, new) |->
              [old |-> JoinValue(EachText(old), key),
               new |-> JoinValue(EachText(new), key)]])

\* changes_json: jsonb_object_agg over changed_keys; an aggregate over no
\* rows is NULL.
ChangesJson(old, new) ==
  IF ChangedKeys(old, new) = {}
  THEN JsonbNull
  ELSE JsonbObj([key \in ChangedKeys(old, new) |->
                   [old |-> JoinValue(EachText(old), key),
                    new |-> JoinValue(EachText(new), key)]])

\* SELECT email, full_name INTO user_email, user_name FROM profiles
\* WHERE id = auth.uid(): both stay NULL when no row is found.
ProfileLookup(caller) ==
  IF caller \in DOMAIN profiles
  THEN profiles[caller]
  ELSE [email |-> Null, full_name |-> Null]

\* Mutant: the DELETE branch takes the id from NEW, which is NULL there.
AuditEntry_NewId(op, caller, old, new, now, log) ==
  [ id |-> Len(log) + 1,
    employee_id |-> IF op = "DELETE" THEN Null ELSE new.id,
    action |-> op,
    changed_by |-> UserId(caller),
    changed_by_email |-> ProfileLookup(caller).email,
    changed_by_name |-> ProfileLookup(caller).full_name,
    old_data |-> IF op = "INSERT" THEN JsonbNull ELSE JsonbObj(ToJsonb(old)),
    new_data |-> IF op = "DELETE" THEN JsonbNull ELSE JsonbObj(ToJsonb(new)),
    changes |-> IF op = "UPDATE" THEN ChangesJson(old, new) ELSE JsonbNull,
    created_at |-> Ts(now) ]

\* Mutant: the DELETE branch stores the record as new_data.
AuditEntry_SwappedDelete(op, caller, old, new, now, log) ==
  [ id |-> Len(log) + 1,
    employee_id |-> IF op = "DELETE" THEN old.id ELSE new.id,
    action |-> op,
    changed_by |-> UserId(caller),
    changed_by_email |-> ProfileLookup(caller).email,
    changed_by_name |-> ProfileLookup(caller).full_name,
    old_data |-> IF op = "UPDATE" THEN JsonbObj(ToJsonb(old)) ELSE JsonbNull,
    new_data |-> IF op = "DELETE" THEN JsonbObj(ToJsonb(old)) ELSE JsonbObj(ToJsonb(new)),
    changes |-> IF op = "UPDATE" THEN ChangesJson(old, new) ELSE JsonbNull,
    created_at |-> Ts(now) ]

\* The row log_employee_change() inserts.
AuditEntry(op, caller, old, new, now, log) ==
  [ id |-> Len(log) + 1,
    employee_id |-> IF op = "DELETE" THEN old.id ELSE new.id,
    action |-> op,
    changed_by |-> UserId(caller),
    changed_by_email |-> ProfileLookup(caller).email,
    changed_by_name |-> ProfileLookup(caller).full_name,
    old_data |-> IF op = "INSERT" THEN JsonbNull ELSE JsonbObj(ToJsonb(old)),
    new_data |-> IF op = "DELETE" THEN JsonbNull ELSE JsonbObj(ToJsonb(new)),
    changes |-> IF op = "UPDATE" THEN ChangesJson(old, new) ELSE JsonbNull,
    created_at |-> Ts(now) ]

\* Constraints of employee_audit_log checked by the INSERT: the NOT NULL
\* columns and the foreign key to employees(id).  "" when the row is accepted.
AuditInsertError(entry, table) ==
  IF entry.changed_by = Null \/ entry.changed_by_email = Null
  THEN "not_null_violation"
  ELSE IF entry.employee_id # Null /\ ~ \E r \in table : r.id = entry.employee_id
  THEN "foreign_key_violation"
  ELSE ""

\* Mutant: an exception handler swallows the error.
TriggerError_Swallowed(ins) == ""

\* The error the statement sees when the INSERT inside log_employee_change()
\* raises ins: the function has no EXCEPTION clause, so the error leaves it.
TriggerError(ins) == ins

\* The referential action of the foreign key when the employees row with
\* id rid is deleted.
FkAction(log, rid) ==
  IF FkOnDelete = "SET NULL"
  THEN [i \in 1..Len(log) |->
          IF log[i].employee_id = rid
          THEN [log[i] EXCEPT !.employee_id = Null] ELSE log[i]]
  ELSE SelectSeq(log, LAMBDA e : e.employee_id # rid)

\* UNIQUE (username): NULLs never conflict.
UniqueViolation(table, row) ==
  /\ row.username # Null
  /\ \E r \in table : r.id # row.id /\ r.username = row.username

\* ------------------------------------------------------------------------
\* Initial state
\* ------------------------------------------------------------------------
NoRow == <<>>
NoTx == [op |-> "", caller |-> "", target |-> Null, old |-> NoRow, new |-> NoRow,
         now |-> 0,
         rows |-> 0, err |-> ""]

\* The record that was in employees before the audit-log migration ran.
LegacyRow ==
  [ id |-> RowId(1), name |-> Text("Alice"), username |-> Text("u1"),
    internet_access |-> Bool(TRUE), created_by |-> UserId("legacy"),
    created_at |-> Ts(0), updated_at |-> Ts(0) ]

\* handle_new_user(): the profile row and the role row of a new user.
NewProfile(u) == [email |-> Text(u), full_name |-> Text("")]

\* "admin" signed up and was granted the admin role; "legacy" is an
\* auth.users row older than the on_auth_user_created trigger: it has no
\* profile and no role.
StoreInit ==
  /\ users = {"admin", "legacy"}
  /\ profiles = [u \in {"admin"} |-> NewProfile(u)]
  /\ roles = {<<"admin", "employee">>, <<"admin", "admin">>}
  /\ employees = {LegacyRow}
  /\ audit = <<>>
  /\ txEmployees = {LegacyRow}
  /\ txAudit = <<>>
  /\ tx = NoTx
  /\ pc = "idle"
  /\ clock = 0
  /\ nextId = 2
  /\ history = <<>>

\* ------------------------------------------------------------------------
\* Sign-up
\* ------------------------------------------------------------------------
\* INSERT on auth.users, with its AFTER INSERT trigger on_auth_user_created.
SignUp(u) ==
  /\ pc = "idle"
  /\ u \notin users
  /\ users' = users \cup {u}
  /\ profiles' = [x \in DOMAIN profiles \cup {u} |->
                    IF x = u THEN NewProfile(u) ELSE profiles[x]]
  /\ roles' = roles \cup {<<u, "employee">>}
  /\ UNCHANGED <<employees, audit, txEmployees, txAudit, tx, pc, clock, nextId,
                 history>>

\* ------------------------------------------------------------------------
\* Statements on public.user_roles
\*
\* A row is <<user_id, role>>.  The only policy for INSERT, UPDATE and
\* DELETE is "Admins can manage roles", FOR ALL with a USING expression and
\* no WITH CHECK, so the USING expression also checks new rows.
\* ------------------------------------------------------------------------
app_role == {"admin", "employee"}

NoStmt == [op |-> "none", caller |-> "none", row |-> <<>>, err |-> "none", rows |-> 0]

RoleInit == rStmt = NoStmt

UserRolesManageUsing_Own(caller, row) == caller = row[1]

\* "Admins can manage roles": USING (has_role(auth.uid(), 'admin')).
UserRolesManageUsing(caller, row) == has_role(caller, "admin")

RoleResult(op, caller, row, err, n) ==
  rStmt' = [op |-> op, caller |-> caller, row |-> row, err |-> err, rows |-> n]

\* INSERT INTO user_roles (user_id, role) VALUES (u, r) by caller.
RoleInsert(caller, u, r) ==
  /\ pc = "idle"
  /\ caller \in users
  /\ u \in users
  /\ IF ~ UserRolesManageUsing(caller, <<u, r>>)
       THEN roles' = roles /\ RoleResult("INSERT", caller, <<u, r>>, "rls", 0)
       ELSE IF <<u, r>> \in roles
         THEN roles' = roles /\ RoleResult("INSERT", caller, <<u, r>>, "unique", 0)
         ELSE /\ roles' = roles \cup {<<u, r>>}
              /\ RoleResult("INSERT", caller, <<u, r>>, "none", 1)
  /\ UNCHANGED <<users, employees, audit, profiles, txEmployees, txAudit, tx, pc,
                 clock, nextId, history>>

\* UPDATE user_roles SET role = r2 WHERE user_id = u AND role = r by caller.
RoleUpdate(caller, u, r, r2) ==
  /\ pc = "idle"
  /\ caller \in users
  /\ IF <<u, r>> \notin roles \/ ~ UserRolesManageUsing(caller, <<u, r>>)
       THEN roles' = roles /\ RoleResult("UPDATE", caller, <<u, r>>, "none", 0)
       ELSE IF ~ UserRolesManageUsing(caller, <<u, r2>>)
         THEN roles' = roles /\ RoleResult("UPDATE", caller, <<u, r>>, "rls", 0)
         ELSE IF r2 # r /\ <<u, r2>> \in roles
           THEN roles' = roles /\ RoleResult("UPDATE", caller, <<u, r>>, "unique", 0)
           ELSE /\ roles' = (roles \ {<<u, r>>}) \cup {<<u, r2>>}
                /\ RoleResult("UPDATE", caller, <<u, r>>, "none", 1)
  /\ UNCHANGED <<users, employees, audit, profiles, txEmployees, txAudit, tx, pc,
                 clock, nextId, history>>

\* DELETE FROM user_roles WHERE user_id = u AND role = r by caller.
RoleDelete(caller, u, r) ==
  /\ pc = "idle"
  /\ caller \in users
  /\ IF <<u, r>> \notin roles \/ ~ UserRolesManageUsing(caller, <<u, r>>)
       THEN roles' = roles /\ RoleResult("DELETE", caller, <<u, r>>, "none", 0)
       ELSE /\ roles' = roles \ {<<u, r>>}
            /\ RoleResult("DELETE", caller, <<u, r>>, "none", 1)
  /\ UNCHANGED <<users, employees, audit, profiles, txEmployees, txAudit, tx, pc,
                 clock, nextId, history>>

\* ------------------------------------------------------------------------
\* Statements on public.employees
\* ------------------------------------------------------------------------
StartTx(op, caller, target, old, new, rows, err) ==
  /\ pc = "idle"
  /\ clock < MaxClock
  /\ caller \in users
  /\ clock' = clock + 1
  /\ tx' = [op |-> op, caller |-> caller, target |-> target, old |-> old, new |-> new,
            now |-> clock + 1, rows |-> rows, err |-> err]
  /\ pc' = IF err # "" THEN "failed" ELSE IF rows = 0 THEN "done" ELSE "before"
  /\ UNCHANGED <<users, employees, audit, profiles, roles, txEmployees, txAudit,
                 nextId, history>>

\* supabase.from('employees').insert(row): id, created_at and updated_at
\* take their column defaults; the INSERT policy's WITH CHECK is evaluated
\* on the new row.
BeginInsert(caller, name, username, flag, owner) ==
  /\ nextId <= MaxId
  /\ LET new == [ id |-> RowId(nextId), name |-> name, username |-> username,
                  internet_access |-> flag, created_by |-> owner,
                  created_at |-> Ts(clock + 1), updated_at |-> Ts(clock + 1) ]
     IN StartTx("INSERT", caller, new.id, NoRow, new, 1,
                IF EmployeesInsertCheck(caller, new) THEN "" ELSE "rls_violation")

\* supabase.from('employees').update(values).eq('id', id): rows the UPDATE
\* policies hide from the caller are not updated.
UpdateRow(caller, i, values) ==
  IF \E r \in employees : r.id = RowId(i) /\ EmployeesUpdateUsing(caller, r)
  THEN LET old == CHOOSE r \in employees : r.id = RowId(i)
           new == [f \in DOMAIN old |->
                     IF f \in DOMAIN values THEN values[f] ELSE old[f]]
       IN StartTx("UPDATE", caller, RowId(i), old, new, 1, "")
  ELSE StartTx("UPDATE", caller, RowId(i), NoRow, NoRow, 0, "")

\* An update of the name and the internet access of a record.
BeginUpdate(caller, i, name, flag) ==
  UpdateRow(caller, i, [name |-> name, internet_access |-> flag])

\* supabase.from('employees').delete().eq('id', id)
BeginDelete(caller, i) ==
  IF \E r \in employees : r.id = RowId(i) /\ EmployeesDeleteUsing(caller, r)
  THEN LET old == CHOOSE r \in employees : r.id = RowId(i)
       IN StartTx("DELETE", caller, RowId(i), old, NoRow, 1, "")
  ELSE StartTx("DELETE", caller, RowId(i), NoRow, NoRow, 0, "")

\* BEFORE ROW triggers of the statement.
BeforeRow ==
  /\ pc = "before"
  /\ LET new == IF Fires("BEFORE", tx.op, "update_updated_at_column")
                THEN update_updated_at_column(tx.new, tx.now) ELSE tx.new
         logs == Fires("BEFORE", tx.op, "log_employee_change")
         entry == AuditEntry(tx.op, tx.caller, tx.old, new, tx.now, txAudit)
         ins == IF logs THEN AuditInsertError(entry, txEmployees) ELSE ""
         err == TriggerError(ins)
     IN /\ tx' = [tx EXCEPT !.new = new, !.err = err]
        /\ txAudit' = IF logs /\ ins = "" THEN Append(txAudit, entry) ELSE txAudit
        /\ pc' = IF err = "" THEN "row" ELSE "failed"
  /\ UNCHANGED <<users, employees, audit, profiles, roles, txEmployees, clock,
                 nextId, history>>

\* The row operation itself: constraint check, the change of the table,
\* and for a DELETE the referential action of the audit log's foreign key.
RowOp ==
  /\ pc = "row"
  /\ LET err == IF tx.op # "DELETE" /\ UniqueViolation(txEmployees, tx.new)
                THEN "unique_violation" ELSE ""
     IN /\ tx' = [tx EXCEPT !.err = err]
        /\ pc' = IF err = "" THEN "after" ELSE "failed"
        /\ txEmployees' =
             IF err # "" THEN txEmployees
             ELSE IF tx.op = "INSERT" THEN txEmployees \cup {tx.new}
             ELSE IF tx.op = "UPDATE" THEN (txEmployees \ {tx.old}) \cup {tx.new}
             ELSE txEmployees \ {tx.old}
        /\ txAudit' = IF err = "" /\ tx.op = "DELETE"
                      THEN FkAction(txAudit, tx.old.id) ELSE txAudit
  /\ UNCHANGED <<users, employees, audit, profiles, roles, clock, nextId,
                 history>>

\* AFTER ROW triggers of the statement.
AfterRow ==
  /\ pc = "after"
  /\ LET logs == Fires("AFTER", tx.op, "log_employee_change")
         entry == AuditEntry(tx.op, tx.caller, tx.old, tx.new, tx.now, txAudit)
         ins == IF logs THEN AuditInsertError(entry, txEmployees) ELSE ""
         err == TriggerError(ins)
     IN /\ tx' = [tx EXCEPT !.err = err]
        /\ txAudit' = IF logs /\ ins = "" THEN Append(txAudit, entry) ELSE txAudit
        /\ pc' = IF err = "" THEN "done" ELSE "failed"
  /\ UNCHANGED <<users, employees, audit, profiles, roles, txEmployees, clock,
                 nextId, history>>

\* The id of the row a statement touched.
TxRowId == IF tx.op = "DELETE" THEN tx.old.id ELSE tx.new.id

\* COMMIT: what the transaction did becomes the stored state.
Commit ==
  /\ pc = "done"
  /\ employees' = txEmployees
  /\ audit' = txAudit
  /\ history' = IF tx.rows = 1 /\ tx.op \in {"INSERT", "UPDATE", "DELETE"}
                THEN Append(history, [kind |-> tx.op, id |-> TxRowId])
                ELSE history
  /\ nextId' = IF tx.op = "INSERT" THEN nextId + 1 ELSE nextId
  /\ tx' = NoTx
  /\ pc' = "idle"
  /\ UNCHANGED <<users, profiles, roles, txEmployees, txAudit, clock>>

\* ROLLBACK after an error: everything the statement and its triggers did
\* is undone.
Rollback ==
  /\ pc = "failed"
  /\ txEmployees' = employees
  /\ txAudit' = audit
  /\ tx' = NoTx
  /\ pc' = "idle"
  /\ UNCHANGED <<users, employees, audit, profiles, roles, clock, nextId, history>>

\* ------------------------------------------------------------------------
\* Statements of application users on public.employee_audit_log
\* ------------------------------------------------------------------------
\* An entry a client could try to insert or to overwrite with.
ForgedEntry(caller, log) ==
  [ id |-> Len(log) + 1, employee_id |-> Null, action |-> "UPDATE",
    changed_by |-> UserId(caller), changed_by_email |-> Text("forged"),
    changed_by_name |-> Null, old_data |-> JsonbNull, new_data |-> JsonbNull,
    changes |-> JsonbNull, created_at |-> Ts(clock) ]

\* A statement on employee_audit_log: no trigger is defined on that table,
\* so the statement is its row operation.
StartAuditTx(op, caller, log, rows, err) ==
  /\ pc = "idle"
  /\ clock < MaxClock
  /\ caller \in users
  /\ clock' = clock + 1
  /\ tx' = [op |-> op, caller |-> caller, target |-> Null, old |-> NoRow,
            new |-> NoRow, now |-> clock + 1, rows |-> rows, err |-> err]
  /\ txAudit' = log
  /\ pc' = IF err # "" THEN "failed" ELSE "done"
  /\ UNCHANGED <<users, employees, audit, profiles, roles, txEmployees, nextId,
                 history>>

\* INSERT into employee_audit_log: refused unless a policy allows it.
DirectAuditInsert(caller) ==
  IF AuditAllowed("INSERT", caller, ForgedEntry(caller, audit))
  THEN StartAuditTx("AUDIT_INSERT", caller,
                    Append(audit, ForgedEntry(caller, audit)), 1, "")
  ELSE StartAuditTx("AUDIT_INSERT", caller, audit, 0, "rls_violation")

\* UPDATE employee_audit_log SET ...: only rows a policy lets the caller
\* update are touched.
DirectAuditUpdate(caller) ==
  StartAuditTx("AUDIT_UPDATE", caller,
    [i \in 1..Len(audit) |->
       IF AuditAllowed("UPDATE", caller, audit[i])
       THEN [ForgedEntry(caller, audit) EXCEPT !.id = audit[i].id]
       ELSE audit[i]],
    Cardinality({i \in 1..Len(audit) : AuditAllowed("UPDATE", caller, audit[i])}),
    "")

\* DELETE FROM employee_audit_log: only rows a policy lets the caller
\* delete are removed.
DirectAuditDelete(caller) ==
  StartAuditTx("AUDIT_DELETE", caller,
    SelectSeq(audit, LAMBDA e : ~ AuditAllowed("DELETE", caller, e)),
    Cardinality({i \in 1..Len(audit) : AuditAllowed("DELETE", caller, audit[i])}),
    "")

\* ------------------------------------------------------------------------
\* The activity view
\* ------------------------------------------------------------------------
\* SELECT * FROM employee_audit_log as caller: the rows a SELECT policy
\* lets the caller see.
AuditSelect(caller) ==
  LET Visible(e) == AuditAllowed("SELECT", caller, e)
  IN SelectSeq(audit, Visible)

RECURSIVE OrderDesc(_)
\* .order('created_at', {ascending: false})
OrderDesc(rows) ==
  IF rows = <<>> THEN <<>>
  ELSE LET k == CHOOSE i \in 1..Len(rows) :
                  \A j \in 1..Len(rows) : rows[j].created_at.n <= rows[i].created_at.n
           rest == [i \in 1..(Len(rows) - 1) |-> IF i < k THEN rows[i] ELSE rows[i + 1]]
       IN <<rows[k]>> \o OrderDesc(rest)

\* The row limit of the view's query (100 in the code), scaled to the
\* lengths the audit log reaches here.
ActivityLimit == 2

\* .limit(n)
Limit(rows, n) == SubSeq(rows, 1, IF Len(rows) < n THEN Len(rows) ELSE n)

\* queryFn of the activity view
ActivityLogQuery(caller) == Limit(OrderDesc(AuditSelect(caller)), ActivityLimit)

\* ------------------------------------------------------------------------
\* Concurrent updates of one record
\*
\* Every request is a transaction of its own.  NOW() is the start time of
\* the transaction; an UPDATE waits for the row lock and then works on the
\* latest committed version of the row.
\* ------------------------------------------------------------------------
Sessions == {"s1", "s2"}

\* Wall-clock ticks in one behaviour.
MaxWall == 3

\* updated_at values a client may put into its UPDATE.
ClientStamps == {Ts(0), Ts(9)}

NoSess == [pc |-> "idle", now |-> 0, new |-> NoRow]

ConcInit ==
  /\ cRow = LegacyRow
  /\ cVersions = <<LegacyRow.updated_at.n>>
  /\ cSess = [s \in Sessions |-> NoSess]
  /\ cLock = ""
  /\ cClock = 0

\* BEGIN: the transaction's NOW() is fixed.
ConcBegin(s) ==
  /\ cSess[s].pc = "idle"
  /\ cClock < MaxWall
  /\ cClock' = cClock + 1
  /\ cSess' = [cSess EXCEPT ![s] = [pc |-> "begun", now |-> cClock + 1, new |-> NoRow]]
  /\ UNCHANGED <<cRow, cVersions, cLock>>

\* UPDATE employees SET name = ..., updated_at = ... WHERE id = ...: takes
\* the row lock, then update_employees_updated_at (BEFORE UPDATE) runs on
\* the new row.
ConcUpdate(s, name, stamp) ==
  /\ cSess[s].pc = "begun"
  /\ cLock = ""
  /\ cLock' = s
  /\ cSess' = [cSess EXCEPT ![s] =
       [pc |-> "locked", now |-> cSess[s].now,
        new |-> update_updated_at_column(
                  [cRow EXCEPT !.name = name, !.updated_at = stamp], cSess[s].now)]]
  /\ UNCHANGED <<cRow, cVersions, cClock>>

\* COMMIT: the new version is stored and the lock released.
ConcCommit(s) ==
  /\ cSess[s].pc = "locked"
  /\ cRow' = cSess[s].new
  /\ cVersions' = Append(cVersions, cSess[s].new.updated_at.n)
  /\ cLock' = ""
  /\ cSess' = [cSess EXCEPT ![s] = NoSess]
  /\ UNCHANGED cClock

\* ------------------------------------------------------------------------
\* Concurrent transactions on the records, with their audit entries
\*
\* A statement that changes a row waits while another transaction holds
\* the row's lock and then works on the latest committed version; the
\* lock is held until the transaction ends.  What a transaction wrote is
\* seen by the others when it commits.
\* ------------------------------------------------------------------------
\* Record ids of this part: 1 is the stored record, 2 a record to insert.
KIds == {1, 2}

\* Transactions begun in one behaviour.
MaxTxs == 4

NoKSess == [pc |-> "idle", now |-> 0, op |-> "", id |-> 0, new |-> NoRow,
            entry |-> <<>>]

ChainInit ==
  /\ kRows = [i \in KIds |-> IF i = 1 THEN LegacyRow ELSE NoRow]
  /\ kAudit = <<>>
  /\ kSess = [s \in Sessions |-> NoKSess]
  /\ kLock = [i \in KIds |-> ""]
  /\ kClock = 0
  /\ kNextId = 2

\* Mutant: statements do not wait for the row lock.
RowLockFree_NoLocking(i) == TRUE

\* No other transaction holds the lock of the row.
RowLockFree(i) == kLock[i] = ""

\* BEGIN
KBegin(s) ==
  /\ kSess[s].pc = "idle"
  /\ kClock < MaxTxs
  /\ kClock' = kClock + 1
  /\ kSess' = [kSess EXCEPT ![s] = [NoKSess EXCEPT !.pc = "begun", !.now = kClock + 1]]
  /\ UNCHANGED <<kRows, kAudit, kLock, kNextId>>

\* The audit entry a row trigger of the statement writes, <<>> when none
\* fires.
KEntry(op, old, new, now) ==
  IF Fires("BEFORE", op, "log_employee_change") \/ Fires("AFTER", op, "log_employee_change")
  THEN <<AuditEntry(op, "admin", old, new, now, <<>>)>>
  ELSE <<>>

\* INSERT by an admin: a new row under a fresh id.
KInsert(s, name) ==
  /\ kSess[s].pc = "begun"
  /\ kNextId \in KIds
  /\ LET new == [ id |-> RowId(kNextId), name |-> name, username |-> Text("u2"),
                  internet_access |-> Bool(TRUE), created_by |-> UserId("admin"),
                  created_at |-> Ts(kSess[s].now), updated_at |-> Ts(kSess[s].now) ]
     IN kSess' = [kSess EXCEPT ![s] =
          [pc |-> "written", now |-> kSess[s].now, op |-> "INSERT", id |-> kNextId,
           new |-> new, entry |-> KEntry("INSERT", NoRow, new, kSess[s].now)]]
  /\ kNextId' = kNextId + 1
  /\ kLock' = [kLock EXCEPT ![kNextId] = s]
  /\ UNCHANGED <<kRows, kAudit, kClock>>

\* UPDATE ... WHERE id = i by an admin: no row, or the row after the wait
\* for its lock.
KUpdate(s, i, name) ==
  /\ kSess[s].pc = "begun"
  /\ RowLockFree(i)
  /\ IF kRows[i] = NoRow
     THEN /\ kSess' = [kSess EXCEPT ![s].pc = "written"]
          /\ UNCHANGED kLock
     ELSE LET old == kRows[i]
              set == [old EXCEPT !.name = name]
              new == IF Fires("BEFORE", "UPDATE", "update_updated_at_column")
                     THEN update_updated_at_column(set, kSess[s].now) ELSE set
          IN /\ kSess' = [kSess EXCEPT ![s] =
                  [pc |-> "written", now |-> kSess[s].now, op |-> "UPDATE", id |-> i,
                   new |-> new, entry |-> KEntry("UPDATE", old, new, kSess[s].now)]]
             /\ kLock' = [kLock EXCEPT ![i] = s]
  /\ UNCHANGED <<kRows, kAudit, kClock, kNextId>>

\* DELETE ... WHERE id = i by an admin
KDelete(s, i) ==
  /\ kSess[s].pc = "begun"
  /\ RowLockFree(i)
  /\ IF kRows[i] = NoRow
     THEN /\ kSess' = [kSess EXCEPT ![s].pc = "written"]
          /\ UNCHANGED kLock
     ELSE /\ kSess' = [kSess EXCEPT ![s] =
               [pc |-> "written", now |-> kSess[s].now, op |-> "DELETE", id |-> i,
                new |-> NoRow, entry |-> KEntry("DELETE", kRows[i], NoRow, kSess[s].now)]]
          /\ kLock' = [kLock EXCEPT ![i] = s]
  /\ UNCHANGED <<kRows, kAudit, kClock, kNextId>>

\* COMMIT: the row change and the audit entry become visible, the foreign
\* key of the audit log acts on a delete, the lock is released.
KCommit(s) ==
  /\ kSess[s].pc = "written"
  /\ LET t == kSess[s]
         log == kAudit \o [k \in 1..Len(t.entry) |->
                             [t.entry[k] EXCEPT !.id = Len(kAudit) + k]]
     IN /\ kRows' = IF t.op = "" THEN kRows ELSE [kRows EXCEPT ![t.id] = t.new]
        /\ kAudit' = IF t.op = "DELETE" THEN FkAction(log, RowId(t.id)) ELSE log
        /\ kLock' = [i \in KIds |-> IF kLock[i] = s THEN "" ELSE kLock[i]]
  /\ kSess' = [kSess EXCEPT ![s] = NoKSess]
  /\ UNCHANGED <<kClock, kNextId>>

\* ------------------------------------------------------------------------
\* The employee table: fetchEmployees and the realtime subscription
\*
\* A fetch is issued, answered by the store with the rows of that moment,
\* and its answer replaces the list when it arrives.  Every committed
\* change of the table is sent to the callback as an event; events arrive
\* in the order of the commits, at any time relative to the answers.
\* ------------------------------------------------------------------------
RtIds == {1, 2}

\* Changes of the table in one behaviour.
MaxChanges == 3

\* Calls of fetchEmployees after the one of the mount effect.
MaxRefetches == 1

\* select('*').order('created_at', {ascending: false}): the stored rows,
\* the newest first (ids are handed out in creation order).
RtRows(store) ==
  LET two == IF store[2] > 0 THEN <<[id |-> 2, ver |-> store[2]]>> ELSE <<>>
      one == IF store[1] > 0 THEN <<[id |-> 1, ver |-> store[1]]>> ELSE <<>>
  IN two \o one

\* The mount effect has called fetchEmployees and subscribed.
RtInit ==
  /\ rtStore = [i \in RtIds |-> IF i = 1 THEN 1 ELSE 0]
  /\ rtList = <<>>
  /\ rtFetch = <<[st |-> "issued", data |-> <<>>]>>
  /\ rtEvents = <<>>
  /\ rtChanges = 0

\* A committed INSERT, with its event.
RtInsert(i) ==
  /\ rtChanges < MaxChanges
  /\ rtStore[i] = 0
  /\ \A j \in RtIds : j < i => rtStore[j] # 0
  /\ rtStore' = [rtStore EXCEPT ![i] = 1]
  /\ rtEvents' = Append(rtEvents, [eventType |-> "INSERT", id |-> i, ver |-> 1])
  /\ rtChanges' = rtChanges + 1
  /\ UNCHANGED <<rtList, rtFetch>>

\* A committed UPDATE, with its event.
RtUpdate(i) ==
  /\ rtChanges < MaxChanges
  /\ rtStore[i] > 0
  /\ rtStore' = [rtStore EXCEPT ![i] = rtStore[i] + 1]
  /\ rtEvents' = Append(rtEvents,
                        [eventType |-> "UPDATE", id |-> i, ver |-> rtStore[i] + 1])
  /\ rtChanges' = rtChanges + 1
  /\ UNCHANGED <<rtList, rtFetch>>

\* A committed DELETE, with its event.
RtDelete(i) ==
  /\ rtChanges < MaxChanges
  /\ rtStore[i] > 0
  /\ rtStore' = [rtStore EXCEPT ![i] = -1]
  /\ rtEvents' = Append(rtEvents, [eventType |-> "DELETE", id |-> i, ver |-> 0])
  /\ rtChanges' = rtChanges + 1
  /\ UNCHANGED <<rtList, rtFetch>>

\* onSuccess of the edit form: fetchEmployees() again.
RtRefetch ==
  /\ Len(rtFetch) < 1 + MaxRefetches
  /\ rtFetch' = Append(rtFetch, [st |-> "issued", data |-> <<>>])
  /\ UNCHANGED <<rtStore, rtList, rtEvents, rtChanges>>

\* The store runs the query of fetch f.
RtQuery(f) ==
  /\ rtFetch[f].st = "issued"
  /\ rtFetch' = [rtFetch EXCEPT ![f] = [st |-> "answered", data |-> RtRows(rtStore)]]
  /\ UNCHANGED <<rtStore, rtList, rtEvents, rtChanges>>

\* The answer of fetch f arrives: setEmployees(data || []).
RtFetchReturn(f) ==
  /\ rtFetch[f].st = "answered"
  /\ rtList' = rtFetch[f].data
  /\ rtFetch' = [rtFetch EXCEPT ![f] = [st |-> "returned", data |-> <<>>]]
  /\ UNCHANGED <<rtStore, rtEvents, rtChanges>>

\* The postgres_changes callback on a list.
ApplyEvent(prev, e) ==
  CASE e.eventType = "INSERT" -> <<[id |-> e.id, ver |-> e.ver]>> \o prev
    [] e.eventType = "UPDATE" ->
         [k \in 1..Len(prev) |->
            IF prev[k].id = e.id THEN [id |-> e.id, ver |-> e.ver] ELSE prev[k]]
    [] e.eventType = "DELETE" -> SelectSeq(prev, LAMBDA emp : emp.id # e.id)

\* The oldest undelivered event reaches the callback.
RtDeliver ==
  /\ rtEvents # <<>>
  /\ rtList' = ApplyEvent(rtList, Head(rtEvents))
  /\ rtEvents' = Tail(rtEvents)
  /\ UNCHANGED <<rtStore, rtFetch, rtChanges>>

\* ------------------------------------------------------------------------
\* The import page: handleFileUpload
\* ------------------------------------------------------------------------
\* Rows of the largest sheet.
MaxRows == 4

\* A row's insert answers without error, answers with an error, or the row
\* throws inside the inner try.
RowOutcomes == {"ok", "error", "throw"}

ZeroStatus == [total |-> 0, success |-> 0, failed |-> 0, errors |-> <<>>]

ImportInit ==
  /\ imPc = "idle"
  /\ imImporting = FALSE
  /\ imStatus = ZeroStatus
  /\ imTotal = 0
  /\ imSuccess = 0
  /\ imFailed = 0
  /\ imErrors = <<>>
  /\ imOutcome = <<>>
  /\ imToasts = {}

\* A file was chosen: setImporting(true), setImportStatus(zero).
ImStart ==
  /\ imPc \in {"idle", "done", "failed"}
  /\ imPc' = "parse"
  /\ imImporting' = TRUE
  /\ imStatus' = ZeroStatus
  /\ imToasts' = {}
  /\ imTotal' = 0 /\ imSuccess' = 0 /\ imFailed' = 0
  /\ imErrors' = <<>> /\ imOutcome' = <<>>

\* The workbook is read and has n rows.
ImParse(n) ==
  /\ imPc = "parse"
  /\ imPc' = "loop"
  /\ imTotal' = n
  /\ UNCHANGED <<imImporting, imStatus, imSuccess, imFailed, imErrors, imOutcome,
                 imToasts>>

\* Reading the file throws: the outer catch, then finally.
ImParseThrows ==
  /\ imPc = "parse"
  /\ imPc' = "failed"
  /\ imToasts' = {"Import Failed"}
  /\ imImporting' = FALSE
  /\ UNCHANGED <<imStatus, imTotal, imSuccess, imFailed, imErrors, imOutcome>>

RowLabel_FailedOnly(success, failed) == failed

\* `Row ${success + failed}`, evaluated after the increment.
RowLabel(success, failed) == success + failed

\* One iteration of for (const row of jsonData).
ImRow(o) ==
  /\ imPc = "loop"
  /\ Len(imOutcome) < imTotal
  /\ imOutcome' = Append(imOutcome, o)
  /\ IF o = "ok"
       THEN imSuccess' = imSuccess + 1 /\ UNCHANGED <<imFailed, imErrors>>
       ELSE /\ imFailed' = imFailed + 1
            /\ imErrors' = Append(imErrors, RowLabel(imSuccess, imFailed + 1))
            /\ UNCHANGED imSuccess
  /\ UNCHANGED <<imPc, imImporting, imStatus, imTotal, imToasts>>

\* After the loop: setImportStatus, the toasts, finally.
ImFinish ==
  /\ imPc = "loop"
  /\ Len(imOutcome) = imTotal
  /\ imStatus' = [total |-> imTotal, success |-> imSuccess, failed |-> imFailed,
                  errors |-> imErrors]
  /\ imToasts' = (IF imSuccess > 0 THEN {"Import Complete"} ELSE {})
                    \cup (IF imFailed > 0 THEN {"Import Warnings"} ELSE {})
  /\ imImporting' = FALSE
  /\ imPc' = "done"
  /\ UNCHANGED <<imTotal, imSuccess, imFailed, imErrors, imOutcome>>

\* ------------------------------------------------------------------------
\* The ping checker: checkPing
\* ------------------------------------------------------------------------
\* What the user may have typed; "" stands for every blank input.
Addresses == {"", "10.0.0.5", "printer.local"}

\* Milliseconds a request may take until it completes or fails.
Durations == {0, 40, 900, 2600, 5200}

\* responseTime < 5000
ReachableBelowMs == 5000

NoResult == [success |-> FALSE, message |-> "null", responseTime |-> -1]

PingInit ==
  /\ pgAddress = ""
  /\ pgPc = "idle"
  /\ pgLoading = FALSE
  /\ pgResult = NoResult
  /\ pgSuccess = FALSE
  /\ pgResponseTime = 0
  /\ pgElapsed = 0
  /\ pgCompleted = {}
  /\ pgToast = "none"

\* onChange of the input: setIpAddress.
PgType(a) ==
  /\ pgPc \in {"idle", "done"}
  /\ a # pgAddress
  /\ pgAddress' = a
  /\ UNCHANGED <<pgPc, pgLoading, pgResult, pgSuccess, pgResponseTime, pgElapsed,
                 pgCompleted, pgToast>>

\* checkPing with a blank input: the toast and return.
PgBlank ==
  /\ pgPc \in {"idle", "done"}
  /\ pgAddress = ""
  /\ pgToast' = "Error"
  /\ UNCHANGED <<pgAddress, pgPc, pgLoading, pgResult, pgSuccess, pgResponseTime,
                 pgElapsed, pgCompleted>>

\* checkPing up to the first request.
PgStart ==
  /\ pgPc \in {"idle", "done"}
  /\ pgAddress # ""
  /\ pgLoading' = TRUE
  /\ pgResult' = NoResult
  /\ pgSuccess' = FALSE
  /\ pgResponseTime' = 0
  /\ pgElapsed' = 0
  /\ pgCompleted' = {}
  /\ pgPc' = "http"
  /\ UNCHANGED <<pgAddress, pgToast>>

\* One iteration of for (const protocol of protocols): the request takes d
\* ms and completes (ok) or rejects.
PgFetch(ok, d) ==
  /\ pgPc \in {"http", "https"}
  /\ pgElapsed' = pgElapsed + d
  /\ IF ok
       THEN /\ pgResponseTime' = pgElapsed + d
            /\ pgSuccess' = TRUE
            /\ pgCompleted' = pgCompleted \cup {pgPc}
            /\ pgPc' = "after"
       ELSE /\ pgPc' = (IF pgPc = "http" THEN "https" ELSE "after")
            /\ UNCHANGED <<pgResponseTime, pgSuccess, pgCompleted>>
  /\ UNCHANGED <<pgAddress, pgLoading, pgResult, pgToast>>

\* if (success || responseTime < 5000)
Reachable(success, responseTime) == success \/ responseTime < ReachableBelowMs

\* After the loop: responseTime || elapsed, the result, the toast, finally.
PgDecide ==
  /\ pgPc = "after"
  /\ LET responseTime == IF pgResponseTime # 0 THEN pgResponseTime ELSE pgElapsed
     IN /\ pgResponseTime' = responseTime
        /\ IF Reachable(pgSuccess, responseTime)
             THEN /\ pgResult' = [success |-> TRUE, message |-> "Host is reachable",
                                  responseTime |-> responseTime]
                  /\ pgToast' = "Success"
             ELSE /\ pgResult' = [success |-> FALSE,
                                  message |-> "Host is not reachable or timed out",
                                  responseTime |-> -1]
                  /\ pgToast' = "Failed"
  /\ pgLoading' = FALSE
  /\ pgPc' = "done"
  /\ UNCHANGED <<pgAddress, pgSuccess, pgElapsed, pgCompleted>>

\* ------------------------------------------------------------------------
\* The edge function send-employee-update-notification
\* ------------------------------------------------------------------------
\* A property an object does not have.
Undefined == [k |-> "undefined", s |-> "", n |-> 0]

\* obj[key]
JsGet(obj, key) == IF key \in DOMAIN obj THEN obj[key] ELSE Undefined

\* a !== b on values JSON.parse produced: two arrays are two objects, never
\* the same one.
StrictNotEqual(a, b) == IF a.k = "jarr" \/ b.k = "jarr" THEN TRUE ELSE a # b

\* String(v): an empty array is the empty string, an array of objects the
\* text of its elements.
JsString(v) ==
  CASE v.k = "jbool" -> IF v.n = 1 THEN "true" ELSE "false"
    [] v.k = "jstr" -> v.s
    [] v.k = "jarr" -> IF v.s = "[]" THEN "" ELSE "[object Object]"

fieldLabels ==
  [name |-> "Name", username |-> "Username", internet_access |-> "Internet Access"]

\* fieldLabels[key] || key
Label(key) == IF key \in DOMAIN fieldLabels THEN fieldLabels[key] ELSE key

\* oldVal, newVal
ValueText(v) == IF v.k \in {"jnull", "undefined"} THEN "Not set" ELSE JsString(v)

\* oldValue, newValue
YesNo(t) == IF t = "true" THEN "Yes" ELSE IF t = "false" THEN "No" ELSE t

\* The keys the loop over newData pushes a change for.
ChangedFields(oldData, newData) ==
  { key \in DOMAIN newData :
      /\ key \notin {"updated_at", "created_at", "id"}
      /\ StrictNotEqual(JsGet(oldData, key), JsGet(newData, key)) }

\* Mutant: values are shown as String() gives them.
RenderChange_Raw(oldData, newData, key) ==
  [field |-> Label(key),
   oldValue |-> ValueText(JsGet(oldData, key)),
   newValue |-> ValueText(JsGet(newData, key))]

\* changes.push({field, oldValue, newValue})
RenderChange(oldData, newData, key) ==
  [field |-> Label(key),
   oldValue |-> YesNo(ValueText(JsGet(oldData, key))),
   newValue |-> YesNo(ValueText(JsGet(newData, key)))]

\* changes, by the key of each element
Changes(oldData, newData) ==
  [key \in ChangedFields(oldData, newData) |-> RenderChange(oldData, newData, key)]

\* Snapshots a request carries: column -> value, a column may be missing.
Absent == [k |-> "absent", s |-> "", n |-> 0]

Snapshot(choice) == [key \in {c \in DOMAIN choice : choice[c] # Absent} |-> choice[key]]

OldChoices ==
  [name : {Absent, Null, Text("Alice")},
   location : {Absent, Null, Text("HQ")},
   internet_access : {Bool(TRUE), Bool(FALSE)},
   custom_peripherals : {Absent, Jsonb("[]")},
   updated_at : {Ts(1)}]

NewChoices ==
  [name : {Absent, Null, Text("Alice")},
   location : {Absent, Null, Text("HQ")},
   internet_access : {Absent, Bool(TRUE), Bool(FALSE)},
   custom_peripherals : {Absent, Jsonb("[]")},
   updated_at : {Absent, Ts(2)}]

\* Mutant: the form data carries the custom peripherals too.
FormKeys_WithPeripherals == {"name", "location", "internet_access", "custom_peripherals"}

\* Keys of employeeSchema: what the validated form data can hold.
FormKeys == {"name", "location", "internet_access"}

\* newData of a form submitted as loaded: the record's own values under the
\* keys of the schema.
FormData(employee) == [key \in DOMAIN employee \cap FormKeys |-> employee[key]]

\* Users holding the admin role.
Admins == {"a1", "a2"}

\* The request: the snapshots the caller holds and the JSON body made of
\* them.
NoReq == [method |-> "", wellFormed |-> FALSE, old |-> <<>>, new |-> <<>>,
          oldData |-> <<>>, newData |-> <<>>]
NoDir == [rolesError |-> FALSE, adminRoles |-> {}, profilesError |-> FALSE,
          adminEmails |-> {}]
NoResp == [status |-> 0, body |-> ""]

NotifyInit ==
  /\ nReq = NoReq
  /\ nDir = NoDir
  /\ nPc = "idle"
  /\ nChanges = <<>>
  /\ nSent = <<>>
  /\ nResp = NoResp

\* new Response(body, {status})
Respond(status, body) ==
  /\ nResp' = [status |-> status, body |-> body]
  /\ nPc' = "done"

\* A request arrives: the CORS preflight is answered at once, req.json()
\* throws on a body that is not JSON.
Receive(method, wellFormed, old, new) ==
  /\ nPc = "idle"
  /\ nReq' = [method |-> method, wellFormed |-> wellFormed, old |-> old, new |-> new,
              oldData |-> ToJsonb(old), newData |-> ToJsonb(new)]
  /\ nDir' = NoDir
  /\ nChanges' = <<>>
  /\ nSent' = <<>>
  /\ IF method = "OPTIONS"
     THEN Respond(200, "preflight")
     ELSE IF ~ wellFormed
          THEN Respond(500, "error")
          ELSE nResp' = NoResp /\ nPc' = "roles"

\* from("user_roles").select("user_id").eq("role", "admin")
LookupRoles(error, rows) ==
  /\ nPc = "roles"
  /\ nDir' = [nDir EXCEPT !.rolesError = error, !.adminRoles = rows]
  /\ IF error
     THEN Respond(500, "error")
     ELSE IF rows = {}
          THEN Respond(200, "No admin users to notify")
          ELSE nResp' = nResp /\ nPc' = "profiles"
  /\ UNCHANGED <<nReq, nChanges, nSent>>

\* from("profiles").select("email").in("id", ...), then the change list.
LookupProfiles(error, rows) ==
  /\ nPc = "profiles"
  /\ nDir' = [nDir EXCEPT !.profilesError = error, !.adminEmails = rows]
  /\ IF error
     THEN Respond(500, "error") /\ nChanges' = nChanges
     ELSE /\ nChanges' = Changes(nReq.oldData, nReq.newData)
          /\ IF ChangedFields(nReq.oldData, nReq.newData) = {}
             THEN Respond(200, "No changes to notify")
             ELSE nResp' = nResp /\ nPc' = "send"
  /\ UNCHANGED <<nReq, nSent>>

\* What resend.emails.send can do: deliver, resolve to {data: null, error},
\* or reject.
SendOutcomes == {"delivered", "error_result", "rejected"}

\* The status after the send: only a rejection reaches the catch block.
SendStatus(outcome) == IF outcome = "rejected" THEN 500 ELSE 200

\* resend.emails.send({to: adminEmails, ...})
Send(outcome) ==
  /\ nPc = "send"
  /\ nSent' = Append(nSent, [to |-> nDir.adminEmails, outcome |-> outcome])
  /\ Respond(SendStatus(outcome), IF outcome = "rejected" THEN "error" ELSE "emailResponse")
  /\ UNCHANGED <<nReq, nDir, nChanges>>

\* ------------------------------------------------------------------------
\* The client: the employee form, the delete button of the table and the
\* import page.  A flow issues one statement, waits for its result, and the
\* update flow then invokes the edge function and waits for its answer.
\* ------------------------------------------------------------------------
\* Names the form's validation lets through (at least two characters).
FormNames == {Text("Alice"), Text("Bob")}

NoUi == [flow |-> "", pc |-> "idle", toast |-> "", message |-> "",
         submitting |-> FALSE, continued |-> FALSE, employee |-> NoRow]

AppInit ==
  /\ ui = NoUi
  /\ invocations = 0
  /\ notif = "none"

\* A flow starts: setIsSubmitting(true) in the form.
StartFlow(flow) ==
  /\ ui.pc = "idle"
  /\ ui' = [flow |-> flow, pc |-> "store", toast |-> "", message |-> "",
            submitting |-> flow \in {"update", "insert"}, continued |-> FALSE,
            employee |-> ui.employee]
  /\ UNCHANGED <<invocations, notif>>

\* handleEdit: the record is loaded and the edit dialog opens with it.
HandleEdit(i) ==
  /\ ui.pc = "idle"
  /\ pc = "idle"
  /\ \E r \in employees : r.id = RowId(i) /\ ui' = [ui EXCEPT !.employee = r]
  /\ UNCHANGED <<invocations, notif>>

\* onSubmit with an employee: update(...).eq('id', employee.id)
SubmitUpdate(caller, name, username, flag) ==
  /\ ui.employee # NoRow
  /\ StartFlow("update")
  /\ UpdateRow(caller, ui.employee.id.n,
               [name |-> name, username |-> username, internet_access |-> flag])

\* onSubmit without an employee: insert({...data, created_by: user.id})
SubmitInsert(caller, name, username, flag) ==
  /\ StartFlow("insert")
  /\ BeginInsert(caller, name, username, flag, UserId(caller))

\* handleDelete
HandleDelete(caller, i) ==
  /\ StartFlow("delete")
  /\ BeginDelete(caller, i)

\* handleFileUpload, one row of the sheet
ImportRow(caller, name, username) ==
  /\ StartFlow("import")
  /\ BeginInsert(caller, name, username, Bool(TRUE), UserId(caller))

\* Mutant: the insert path invokes the edge function as well.
AfterStore_InsertInvokes(flow, err) ==
  IF err # ""
  THEN [toast |-> IF flow = "import" THEN "row_error" ELSE "error",
        invoke |-> FALSE, continued |-> FALSE]
  ELSE [toast |-> IF flow = "import" THEN "" ELSE "success",
        invoke |-> flow \in {"update", "insert"},
        continued |-> FALSE]

\* Mutant: the update path does not test the error of the statement.
AfterStore_ErrorIgnored(flow, err) ==
  IF err # "" /\ flow # "update"
  THEN [toast |-> IF flow = "import" THEN "row_error" ELSE "error",
        invoke |-> FALSE, continued |-> FALSE]
  ELSE [toast |-> IF flow = "import" THEN "" ELSE "success",
        invoke |-> flow = "update",
        continued |-> flow = "insert"]

\* What the client does with the result of its statement: an error is
\* thrown to the outer catch (toast.error) or counted as a failed row; a
\* success is announced, and the update path goes on to the invocation
\* before its continuation.
AfterStore(flow, err) ==
  IF err # ""
  THEN [toast |-> IF flow = "import" THEN "row_error" ELSE "error",
        invoke |-> FALSE, continued |-> FALSE]
  ELSE [toast |-> IF flow = "import" THEN "" ELSE "success",
        invoke |-> flow = "update",
        continued |-> flow = "insert"]

\* The statement returned.
StoreReturned(err) ==
  /\ ui.pc = "store"
  /\ LET r == AfterStore(ui.flow, err)
     IN /\ ui' = [ui EXCEPT !.toast = r.toast,
                            !.message = IF r.toast \in {"error", "row_error"}
                                        THEN err ELSE "",
                            !.continued = r.continued,
                            !.submitting = ui.submitting /\ r.invoke,
                            !.pc = IF r.invoke THEN "invoke" ELSE "idle"]
        /\ invocations' = IF r.invoke THEN invocations + 1 ELSE invocations
        /\ notif' = IF r.invoke THEN "pending" ELSE notif

AppCommit == Commit /\ StoreReturned("")

AppRollback == Rollback /\ StoreReturned(tx.err)

\* How supabase.functions.invoke can end: the function answered 200, it
\* answered 500 or could not be reached (an error in the result), or the
\* call threw.
InvokeOutcomes == {"ok", "error_result", "thrown"}

\* Mutant: no try/catch around the invocation.
AfterInvoke_Uncaught(outcome) ==
  IF outcome = "thrown"
  THEN [toast |-> "error", continued |-> FALSE]
  ELSE [toast |-> "success", continued |-> TRUE]

\* After the awaited invocation: its result is not looked at, an exception
\* is caught and logged; onSuccess() or navigate('/dashboard') follows.
AfterInvoke(outcome) == [toast |-> "success", continued |-> TRUE]

\* The invocation returned; finally setIsSubmitting(false).
InvokeReturn(outcome) ==
  /\ ui.pc = "invoke"
  /\ notif = "pending"
  /\ notif' = outcome
  /\ ui' = [ui EXCEPT !.pc = "idle", !.submitting = FALSE,
                      !.toast = AfterInvoke(outcome).toast,
                      !.continued = AfterInvoke(outcome).continued,
                      \* onSuccess closes the dialog
                      !.employee = IF AfterInvoke(outcome).continued
                                   THEN NoRow ELSE ui.employee]
  /\ UNCHANGED invocations

\* ------------------------------------------------------------------------
\* Specifications
\* ------------------------------------------------------------------------
Init == StoreInit /\ ConcInit /\ AppInit /\ NotifyInit /\ ChainInit /\ RtInit /\ RoleInit /\ ImportInit /\ PingInit

\* Statements on the store, one at a time, by any user.
Next ==
  \/ (\E u \in Users : SignUp(u))
       /\ UNCHANGED <<concVars, appVars, notifyVars, extraVars>>
  \/ (\E c \in Users, nm \in Names, un \in Usernames :
        \E ow \in {UserId(c), UserId("admin"), Null} :
          BeginInsert(c, nm, un, Bool(TRUE), ow))
       /\ UNCHANGED <<concVars, appVars, notifyVars, extraVars>>
  \/ (\E c \in Users, i \in 1..MaxId, nm \in Names, fl \in Flags :
        BeginUpdate(c, i, nm, fl))
       /\ UNCHANGED <<concVars, appVars, notifyVars, extraVars>>
  \/ (\E c \in Users, i \in 1..MaxId : BeginDelete(c, i))
       /\ UNCHANGED <<concVars, appVars, notifyVars, extraVars>>
  \/ BeforeRow /\ UNCHANGED <<concVars, appVars, notifyVars, extraVars>>
  \/ RowOp /\ UNCHANGED <<concVars, appVars, notifyVars, extraVars>>
  \/ AfterRow /\ UNCHANGED <<concVars, appVars, notifyVars, extraVars>>
  \/ Commit /\ UNCHANGED <<concVars, appVars, notifyVars, extraVars>>
  \/ Rollback /\ UNCHANGED <<concVars, appVars, notifyVars, extraVars>>
  \/ (\E c \in Users : DirectAuditInsert(c))
       /\ UNCHANGED <<concVars, appVars, notifyVars, extraVars>>
  \/ (\E c \in Users : DirectAuditUpdate(c))
       /\ UNCHANGED <<concVars, appVars, notifyVars, extraVars>>
  \/ (\E c \in Users : DirectAuditDelete(c))
       /\ UNCHANGED <<concVars, appVars, notifyVars, extraVars>>

Spec == Init /\ [][Next]_vars

\* Transactions of two sessions updating the same record.
NextConc ==
  \/ (\E s \in Sessions : ConcBegin(s))
       /\ UNCHANGED <<storeVars, appVars, notifyVars, extraVars>>
  \/ (\E s \in Sessions, nm \in Names, st \in ClientStamps : ConcUpdate(s, nm, st))
       /\ UNCHANGED <<storeVars, appVars, notifyVars, extraVars>>
  \/ (\E s \in Sessions : ConcCommit(s))
       /\ UNCHANGED <<storeVars, appVars, notifyVars, extraVars>>

SpecConc == Init /\ [][NextConc]_vars

\* Transactions of two sessions on two records.
NextChain ==
  \/ (\E s \in Sessions : KBegin(s))
       /\ UNCHANGED <<storeVars, concVars, appVars, notifyVars, rtVars, roleVars, imVars, pingVars>>
  \/ (\E s \in Sessions, nm \in Names : KInsert(s, nm))
       /\ UNCHANGED <<storeVars, concVars, appVars, notifyVars, rtVars, roleVars, imVars, pingVars>>
  \/ (\E s \in Sessions, i \in KIds, nm \in Names : KUpdate(s, i, nm))
       /\ UNCHANGED <<storeVars, concVars, appVars, notifyVars, rtVars, roleVars, imVars, pingVars>>
  \/ (\E s \in Sessions, i \in KIds : KDelete(s, i))
       /\ UNCHANGED <<storeVars, concVars, appVars, notifyVars, rtVars, roleVars, imVars, pingVars>>
  \/ (\E s \in Sessions : KCommit(s))
       /\ UNCHANGED <<storeVars, concVars, appVars, notifyVars, rtVars, roleVars, imVars, pingVars>>

SpecChain == Init /\ [][NextChain]_vars

\* The employee table while the store changes.
NextRealtime ==
  \/ (\E i \in RtIds : RtInsert(i))
       /\ UNCHANGED <<storeVars, concVars, appVars, notifyVars, chainVars, roleVars, imVars, pingVars>>
  \/ (\E i \in RtIds : RtUpdate(i))
       /\ UNCHANGED <<storeVars, concVars, appVars, notifyVars, chainVars, roleVars, imVars, pingVars>>
  \/ (\E i \in RtIds : RtDelete(i))
       /\ UNCHANGED <<storeVars, concVars, appVars, notifyVars, chainVars, roleVars, imVars, pingVars>>
  \/ RtRefetch /\ UNCHANGED <<storeVars, concVars, appVars, notifyVars, chainVars, roleVars, imVars, pingVars>>
  \/ (\E f \in 1..Len(rtFetch) : RtQuery(f))
       /\ UNCHANGED <<storeVars, concVars, appVars, notifyVars, chainVars, roleVars, imVars, pingVars>>
  \/ (\E f \in 1..Len(rtFetch) : RtFetchReturn(f))
       /\ UNCHANGED <<storeVars, concVars, appVars, notifyVars, chainVars, roleVars, imVars, pingVars>>
  \/ RtDeliver /\ UNCHANGED <<storeVars, concVars, appVars, notifyVars, chainVars, roleVars, imVars, pingVars>>

SpecRealtime == Init /\ [][NextRealtime]_vars

\* Sign-ups and statements on user_roles by any signed-in user.
NextRoles ==
  \/ (\E u \in Users : SignUp(u))
       /\ UNCHANGED <<concVars, appVars, notifyVars, extraVars>>
  \/ (\E c \in Users, u \in Users, r \in app_role : RoleInsert(c, u, r))
       /\ UNCHANGED <<concVars, appVars, notifyVars, chainVars, rtVars, imVars, pingVars>>
  \/ (\E c \in Users, u \in Users, r \in app_role, r2 \in app_role :
        RoleUpdate(c, u, r, r2))
       /\ UNCHANGED <<concVars, appVars, notifyVars, chainVars, rtVars, imVars, pingVars>>
  \/ (\E c \in Users, u \in Users, r \in app_role : RoleDelete(c, u, r))
       /\ UNCHANGED <<concVars, appVars, notifyVars, chainVars, rtVars, imVars, pingVars>>

SpecRoles == Init /\ [][NextRoles]_vars

\* Imports, one after another.
NextImport ==
  \/ ImStart
       /\ UNCHANGED <<storeVars, concVars, appVars, notifyVars, chainVars, rtVars, roleVars, pingVars>>
  \/ (\E n \in 0..MaxRows : ImParse(n))
       /\ UNCHANGED <<storeVars, concVars, appVars, notifyVars, chainVars, rtVars, roleVars, pingVars>>
  \/ ImParseThrows
       /\ UNCHANGED <<storeVars, concVars, appVars, notifyVars, chainVars, rtVars, roleVars, pingVars>>
  \/ (\E o \in RowOutcomes : ImRow(o))
       /\ UNCHANGED <<storeVars, concVars, appVars, notifyVars, chainVars, rtVars, roleVars, pingVars>>
  \/ ImFinish
       /\ UNCHANGED <<storeVars, concVars, appVars, notifyVars, chainVars, rtVars, roleVars, pingVars>>

SpecImport == Init /\ [][NextImport]_vars

\* Checks of the ping checker, one after another.
NextPing ==
  \/ (\E a \in Addresses : PgType(a))
       /\ UNCHANGED <<storeVars, concVars, appVars, notifyVars, chainVars, rtVars, roleVars, imVars>>
  \/ PgBlank
       /\ UNCHANGED <<storeVars, concVars, appVars, notifyVars, chainVars, rtVars, roleVars, imVars>>
  \/ PgStart
       /\ UNCHANGED <<storeVars, concVars, appVars, notifyVars, chainVars, rtVars, roleVars, imVars>>
  \/ (\E ok \in BOOLEAN, d \in Durations : PgFetch(ok, d))
       /\ UNCHANGED <<storeVars, concVars, appVars, notifyVars, chainVars, rtVars, roleVars, imVars>>
  \/ PgDecide
       /\ UNCHANGED <<storeVars, concVars, appVars, notifyVars, chainVars, rtVars, roleVars, imVars>>

SpecPing == Init /\ [][NextPing]_vars

\* The client's flows on the store, one at a time.
NextApp ==
  \/ (\E i \in 1..MaxId : HandleEdit(i))
       /\ UNCHANGED <<storeVars, concVars, notifyVars, extraVars>>
  \/ (\E c \in users, nm \in FormNames, un \in Usernames, fl \in Flags :
        SubmitUpdate(c, nm, un, fl))
       /\ UNCHANGED <<concVars, notifyVars, extraVars>>
  \/ (\E c \in users, nm \in FormNames, un \in Usernames :
        SubmitInsert(c, nm, un, Bool(TRUE)))
       /\ UNCHANGED <<concVars, notifyVars, extraVars>>
  \/ (\E c \in users, i \in 1..MaxId : HandleDelete(c, i))
       /\ UNCHANGED <<concVars, notifyVars, extraVars>>
  \/ (\E c \in users, nm \in FormNames, un \in Usernames : ImportRow(c, nm, un))
       /\ UNCHANGED <<concVars, notifyVars, extraVars>>
  \/ BeforeRow /\ UNCHANGED <<concVars, appVars, notifyVars, extraVars>>
  \/ RowOp /\ UNCHANGED <<concVars, appVars, notifyVars, extraVars>>
  \/ AfterRow /\ UNCHANGED <<concVars, appVars, notifyVars, extraVars>>
  \/ AppCommit /\ UNCHANGED <<concVars, notifyVars, extraVars>>
  \/ AppRollback /\ UNCHANGED <<concVars, notifyVars, extraVars>>
  \/ (\E o \in InvokeOutcomes : InvokeReturn(o))
       /\ UNCHANGED <<storeVars, concVars, notifyVars, extraVars>>

SpecApp == Init /\ [][NextApp]_vars

\* One request to the edge function: the handler keeps nothing between
\* requests.
NextNotify ==
  \/ (nPc = "idle" /\ \E m \in {"POST", "OPTIONS"} : Receive(m, FALSE, <<>>, <<>>))
       /\ UNCHANGED <<storeVars, concVars, appVars, extraVars>>
  \/ (nPc = "idle" /\ \E o \in OldChoices, n \in NewChoices :
                        Receive("POST", TRUE, Snapshot(o), Snapshot(n)))
       /\ UNCHANGED <<storeVars, concVars, appVars, extraVars>>
  \/ (\E e \in BOOLEAN, rows \in SUBSET Admins :
        (e => rows = {}) /\ LookupRoles(e, rows))
       /\ UNCHANGED <<storeVars, concVars, appVars, extraVars>>
  \/ (\E e \in BOOLEAN, rows \in SUBSET nDir.adminRoles :
        (e => rows = {}) /\ LookupProfiles(e, rows))
       /\ UNCHANGED <<storeVars, concVars, appVars, extraVars>>
  \/ (\E o \in SendOutcomes :
        \* a message without recipients is not delivered
        (nDir.adminEmails = {} => o # "delivered") /\ Send(o))
       /\ UNCHANGED <<storeVars, concVars, appVars, extraVars>>

SpecNotify == Init /\ [][NextNotify]_vars

\* ------------------------------------------------------------------------
\* Helpers of the properties
\* ------------------------------------------------------------------------
Last(log) == log[Len(log)]

\* The running statement changes one row of employees.
RowTx(op) == tx.op = op /\ tx.rows = 1

\* The stored row with the given id.
Stored(rid) == CHOOSE r \in employees : r.id = rid

\* The text of field F in a stored snapshot, NULL when F is missing.
SnapText(snap, F) == IF F \in DOMAIN snap.obj THEN JsonText(snap.obj[F]) ELSE Null

\* The record id a log entry's snapshots name.
EntryRow(e) == IF e.action = "DELETE" THEN e.old_data.obj["id"] ELSE e.new_data.obj["id"]

\* ------------------------------------------------------------------------
\* C1: every committed mutation of employees has exactly one audit entry of
\* the same kind for the same record, in the same order, and every audit
\* entry belongs to one committed mutation; a stored record made after the
\* audit log existed has its INSERT entry and a logged DELETE names a record
\* that is gone.
\* ------------------------------------------------------------------------
C1_OneEntryPerMutation ==
  /\ Len(audit) = Len(history)
  /\ \A i \in 1..Len(audit) :
       /\ audit[i].action = history[i].kind
       /\ EntryRow(audit[i]) = JsonOf(history[i].id)
  /\ \A r \in employees :
       r.id # LegacyRow.id =>
         \E i \in 1..Len(audit) :
           audit[i].action = "INSERT" /\ EntryRow(audit[i]) = JsonOf(r.id)
  /\ \A i \in 1..Len(audit) :
       audit[i].action = "DELETE" =>
         ~ \E r \in employees : JsonOf(r.id) = EntryRow(audit[i])

C1_Witness ==
  /\ pc = "idle"
  /\ {history[i].kind : i \in 1..Len(history)} = {"INSERT", "UPDATE", "DELETE"}
  /\ Len(audit) = 3

\* ------------------------------------------------------------------------
\* C2: in every UPDATE entry the diff contains field F exactly when F is not
\* updated_at and the text of F in the old snapshot differs from the text
\* of F in the new snapshot, and the diff's entry for F carries these two
\* texts.
\* ------------------------------------------------------------------------
InDiff(e, F) == ~ e.changes.null /\ F \in DOMAIN e.changes.obj

C2_DiffIffTextDiffers ==
  \A i \in 1..Len(txAudit) :
    txAudit[i].action = "UPDATE" =>
      \A F \in Fields \cup DOMAIN txAudit[i].old_data.obj
                      \cup DOMAIN txAudit[i].new_data.obj :
        /\ InDiff(txAudit[i], F) <=>
             /\ F # "updated_at"
             /\ SnapText(txAudit[i].old_data, F) # SnapText(txAudit[i].new_data, F)
        /\ InDiff(txAudit[i], F) =>
             /\ txAudit[i].changes.obj[F].old = SnapText(txAudit[i].old_data, F)
             /\ txAudit[i].changes.obj[F].new = SnapText(txAudit[i].new_data, F)

C2_Witness ==
  \E i \in 1..Len(audit) :
    /\ audit[i].action = "UPDATE"
    /\ ~ audit[i].changes.null
    /\ DOMAIN audit[i].changes.obj = {"internet_access", "name"}
    /\ audit[i].changes.obj["internet_access"] = [old |-> Text("true"), new |-> Text("false")]
    /\ audit[i].changes.obj["name"] = [old |-> Text("Alice"), new |-> Null]

\* ------------------------------------------------------------------------
\* C3: a DELETE writes its audit entry while the row is still in the table:
\* once the BEFORE ROW phase is over the entry is there with the stored
\* record as old snapshot, and the statement never fails with a foreign-key
\* violation.
\* ------------------------------------------------------------------------
C3_DeleteAuditedBeforeRemoval ==
  /\ (RowTx("DELETE") /\ pc \in {"row", "after", "done"}) =>
       /\ Len(txAudit) = Len(audit) + 1
       /\ Last(txAudit).action = "DELETE"
       /\ Last(txAudit).old_data = JsonbObj(ToJsonb(Stored(tx.old.id)))
       /\ pc = "row" => Stored(tx.old.id) \in txEmployees
  /\ ~ (tx.op = "DELETE" /\ tx.err = "foreign_key_violation")

C3_Witness ==
  /\ RowTx("DELETE")
  /\ pc = "done"
  /\ Last(txAudit).old_data.obj["name"] = JsonOf(Null)
  /\ tx.old \notin txEmployees

\* ------------------------------------------------------------------------
\* C4: the audit log never gets shorter, and the step that removes a record
\* keeps every entry that referenced it, unchanged but for employee_id,
\* which becomes NULL.
\* ------------------------------------------------------------------------
C4_DeleteKeepsEntries ==
  [][ /\ Len(audit') >= Len(audit)
      /\ \A r \in employees :
           (~ \E q \in employees' : q.id = r.id) =>
             \A i \in 1..Len(audit) :
               audit[i].employee_id = r.id =>
                 /\ i <= Len(audit')
                 /\ audit'[i] = [audit[i] EXCEPT !.employee_id = Null] ]_vars

C4_Witness ==
  /\ pc = "idle"
  /\ Len(audit) = 3
  /\ audit[1].action = "INSERT" /\ audit[1].employee_id = Null
  /\ audit[2].action = "UPDATE" /\ audit[2].employee_id = Null
  /\ audit[3].action = "DELETE"
  /\ EntryRow(audit[1]) = EntryRow(audit[3])
  /\ EntryRow(audit[2]) = EntryRow(audit[3])

\* ------------------------------------------------------------------------
\* C5: deleting a record R that has no audit entry yet adds one DELETE
\* entry with the full record as old snapshot and no new snapshot; the
\* entry references R while the row is still there and NULL once the row is
\* gone, and it is in the log in both states.
\* ------------------------------------------------------------------------
NoPriorEntries(rid) == ~ \E i \in 1..Len(audit) : audit[i].employee_id = rid

C5_DeleteEntryReference ==
  (RowTx("DELETE") /\ NoPriorEntries(tx.old.id) /\ pc \in {"row", "after", "done"}) =>
    /\ Len(txAudit) = Len(audit) + 1
    /\ Last(txAudit).action = "DELETE"
    /\ Last(txAudit).old_data = JsonbObj(ToJsonb(Stored(tx.old.id)))
    /\ Last(txAudit).new_data = JsonbNull
    /\ pc = "row" =>
         /\ \E r \in txEmployees : r.id = tx.old.id
         /\ Last(txAudit).employee_id = tx.old.id
    /\ pc \in {"after", "done"} =>
         /\ ~ \E r \in txEmployees : r.id = tx.old.id
         /\ Last(txAudit).employee_id = Null

C5_Witness ==
  /\ RowTx("DELETE")
  /\ NoPriorEntries(tx.old.id)
  /\ pc = "done"
  /\ tx.old.id = RowId(1)
  /\ Last(txAudit).employee_id = Null
  /\ EntryRow(Last(txAudit)) = JsonOf(RowId(1))

\* ------------------------------------------------------------------------
\* C6: when the audit INSERT fails, the statement fails: the next step is
\* the rollback, which leaves employees and the audit log as they were, and
\* no step changes employees without adding one audit entry.
\* ------------------------------------------------------------------------
AuditWriteFailed == tx.err \in {"not_null_violation", "foreign_key_violation"}

C6_AuditFailureAborts ==
  [][ /\ AuditWriteFailed =>
           /\ pc = "failed"
           /\ employees' = employees /\ audit' = audit
           /\ txEmployees' = employees /\ txAudit' = audit
      /\ employees' # employees => Len(audit') = Len(audit) + 1
      /\ (pc' = "done" /\ txEmployees' # employees) => Len(txAudit') = Len(audit) + 1
    ]_vars

C6_Witness ==
  /\ pc = "failed"
  /\ tx.op = "INSERT"
  /\ tx.err = "not_null_violation"
  /\ txEmployees # employees
  /\ txAudit = audit

\* ------------------------------------------------------------------------
\* C7: a statement of a caller without a profile row that changes a record
\* does not fail on the audit write; its audit entry is written with
\* unknown e-mail and name.
\* ------------------------------------------------------------------------
C7_MissingProfileTolerated ==
  (tx.op \in {"INSERT", "UPDATE", "DELETE"} /\ tx.rows = 1
     /\ tx.caller \notin DOMAIN profiles) =>
    /\ tx.err # "not_null_violation"
    /\ pc = "done" =>
         /\ Len(txAudit) = Len(audit) + 1
         /\ Last(txAudit).changed_by = UserId(tx.caller)
         /\ Last(txAudit).changed_by_name = Null

\* ------------------------------------------------------------------------
\* C8: every audit entry has the snapshots its action fixes: INSERT no old
\* snapshot, the full new record and no diff; DELETE the full old record,
\* no new snapshot and no diff; UPDATE the full old and the full new
\* record.  The snapshot written by the running statement is the record
\* the statement stored or removed.
\* ------------------------------------------------------------------------
FullSnapshot(snap) == ~ snap.null /\ DOMAIN snap.obj = Fields

C8_SnapshotShape ==
  /\ \A i \in 1..Len(txAudit) :
       /\ txAudit[i].action = "INSERT" =>
            /\ txAudit[i].old_data = JsonbNull
            /\ FullSnapshot(txAudit[i].new_data)
            /\ txAudit[i].changes = JsonbNull
       /\ txAudit[i].action = "DELETE" =>
            /\ FullSnapshot(txAudit[i].old_data)
            /\ txAudit[i].new_data = JsonbNull
            /\ txAudit[i].changes = JsonbNull
       /\ txAudit[i].action = "UPDATE" =>
            /\ FullSnapshot(txAudit[i].old_data)
            /\ FullSnapshot(txAudit[i].new_data)
  /\ (pc = "done" /\ tx.rows = 1 /\ tx.op \in {"INSERT", "UPDATE"}) =>
       \E r \in txEmployees :
         /\ r \notin employees
         /\ Last(txAudit).new_data = JsonbObj(ToJsonb(r))
  /\ (pc = "done" /\ tx.rows = 1 /\ tx.op \in {"UPDATE", "DELETE"}) =>
       \E r \in employees :
         /\ r \notin txEmployees
         /\ Last(txAudit).old_data = JsonbObj(ToJsonb(r))

C8_Witness ==
  /\ pc = "idle"
  /\ Len(audit) = 3
  /\ audit[1].action = "UPDATE"
  /\ audit[2].action = "INSERT"
  /\ audit[3].action = "DELETE"

\* ------------------------------------------------------------------------
\* C9 as stated: an UPDATE that changes no field but updated_at writes one
\* UPDATE entry whose diff is present and is the empty mapping.
\* ------------------------------------------------------------------------
\* The running UPDATE leaves every field but updated_at as stored.
NoFieldChanged ==
  /\ RowTx("UPDATE")
  /\ \E r \in employees : \E q \in txEmployees :
       /\ r.id = tx.old.id /\ q.id = r.id
       /\ q # r
       /\ \A F \in Fields \ {"updated_at"} : q[F] = r[F]

C9_EmptyDiffMapping ==
  (pc = "done" /\ NoFieldChanged) =>
    /\ Len(txAudit) = Len(audit) + 1
    /\ Last(txAudit).action = "UPDATE"
    /\ ~ Last(txAudit).changes.null
    /\ DOMAIN Last(txAudit).changes.obj = {}

\* C9 amended: an UPDATE that changes no field but updated_at writes one
\* UPDATE entry with both snapshots, and the entry's diff is the SQL NULL
\* (no diff is stored), not an empty mapping.
C9_NullDiff ==
  (pc = "done" /\ NoFieldChanged) =>
    /\ Len(txAudit) = Len(audit) + 1
    /\ Last(txAudit).action = "UPDATE"
    /\ Last(txAudit).changes.null
    /\ Last(txAudit).old_data # Last(txAudit).new_data

C9_Witness ==
  /\ pc = "done"
  /\ NoFieldChanged
  /\ Last(txAudit).action = "UPDATE"
  /\ Last(txAudit).changes = JsonbNull

\* ------------------------------------------------------------------------
\* C10: no step removes an audit entry or changes anything of it but
\* employee_id, and employee_id changes only to NULL and only in the step
\* that removes the record it referenced.
\* ------------------------------------------------------------------------
C10_EntriesImmutable ==
  [][ \A i \in 1..Len(audit) :
        /\ i <= Len(audit')
        /\ \/ audit'[i] = audit[i]
           \/ /\ audit'[i] = [audit[i] EXCEPT !.employee_id = Null]
              /\ \E r \in employees : r.id = audit[i].employee_id
              /\ ~ \E r \in employees' : r.id = audit[i].employee_id ]_vars

C10_Witness ==
  /\ pc = "done"
  /\ tx.op \in {"AUDIT_UPDATE", "AUDIT_DELETE"}
  /\ tx.caller = "admin"
  /\ tx.rows = 0
  /\ Len(audit) = 2
  /\ audit[1].employee_id = Null
  /\ txAudit = audit

\* ------------------------------------------------------------------------
\* C11: over the committed versions of a record, updated_at never
\* decreases, and every update stores the NOW() of its transaction as
\* updated_at whatever the client sent.
\* ------------------------------------------------------------------------
C11_UpdatedAtMonotonic ==
  /\ \A i \in 1..(Len(cVersions) - 1) : cVersions[i] <= cVersions[i + 1]
  /\ \A s \in Sessions :
       cSess[s].pc = "locked" => cSess[s].new.updated_at = Ts(cSess[s].now)

\* The handler got as far as computing the change list.
Compared ==
  /\ nPc \in {"send", "done"}
  /\ nReq.method = "POST" /\ nReq.wellFormed
  /\ ~ nDir.rolesError /\ nDir.adminRoles # {} /\ ~ nDir.profilesError

C14_SameFieldsAsDiffer ==
  Compared =>
    DOMAIN nChanges = ChangedKeys(nReq.old, nReq.new) \ {"id", "created_at", "updated_at"}

\* ------------------------------------------------------------------------
\* C15: with no admin address resolved the handler answers the successful
\* no-op and sends nothing; no send has an empty recipient list.
\* ------------------------------------------------------------------------
C15_NoAddressNoSend ==
  /\ \A i \in 1..Len(nSent) : nSent[i].to # {}
  /\ (nPc = "done" /\ nReq.method = "POST" /\ nReq.wellFormed
        /\ ~ nDir.rolesError /\ ~ nDir.profilesError /\ nDir.adminEmails = {}) =>
       (nSent = <<>> /\ nResp.status = 200)

\* ------------------------------------------------------------------------
\* C18: a request is answered 200 exactly when the send completed or a
\* no-op path was taken, and 500 with an error payload exactly when a
\* lookup, the parsing of the request or the send failed.
\* ------------------------------------------------------------------------
C18_StatusMatchesOutcome ==
  (nPc = "done" /\ nReq.method = "POST") =>
    LET failed == \/ ~ nReq.wellFormed
                  \/ nDir.rolesError
                  \/ nDir.profilesError
                  \/ \E i \in 1..Len(nSent) : nSent[i].outcome # "delivered"
    IN /\ nResp.status = 500 <=> failed
       /\ nResp.status = 200 <=> ~ failed
       /\ nResp.status = 500 => nResp.body = "error"

\* ------------------------------------------------------------------------
\* C19: a change is shown under the label of its field, or under the field
\* name when it has none; true is shown as Yes, false as No, and a null or
\* missing value as a text that is neither.
\* ------------------------------------------------------------------------
C19_Rendering ==
  Compared =>
    \A key \in DOMAIN nChanges :
      LET c == nChanges[key]
          o == JsGet(nReq.oldData, key)
          n == JsGet(nReq.newData, key)
      IN /\ key = "internet_access" => c.field = "Internet Access"
         /\ key = "name" => c.field = "Name"
         /\ key \in {"location", "custom_peripherals"} => c.field = key
         /\ o = JsonOf(Bool(TRUE)) => c.oldValue = "Yes"
         /\ o = JsonOf(Bool(FALSE)) => c.oldValue = "No"
         /\ n = JsonOf(Bool(TRUE)) => c.newValue = "Yes"
         /\ n = JsonOf(Bool(FALSE)) => c.newValue = "No"
         /\ o \in {JsonOf(Null), Undefined} => c.oldValue = "Not set"
         /\ n \in {JsonOf(Null), Undefined} => c.newValue = "Not set"
         /\ "Not set" \notin {"Yes", "No", "true", "false"}

C19_Witness ==
  /\ Compared
  /\ DOMAIN nChanges = {"internet_access", "location"}
  /\ nChanges.internet_access =
       [field |-> "Internet Access", oldValue |-> "Yes", newValue |-> "No"]
  /\ nChanges.location = [field |-> "location", oldValue |-> "Not set", newValue |-> "HQ"]

\* ------------------------------------------------------------------------
\* C12: the edge function is invoked only by the update flow, at the
\* moment its UPDATE statement has returned without error; inserts,
\* deletes, imported rows and failed updates never invoke it.
\* ------------------------------------------------------------------------
C12_InvokedOnlyAfterUpdate ==
  [][invocations' # invocations =>
       /\ ui.flow = "update" /\ ui.pc = "store"
       /\ pc = "done" /\ tx.op = "UPDATE" /\ tx.err = ""
       /\ employees' = txEmployees /\ audit' = txAudit
       /\ invocations' = invocations + 1
       /\ notif' = "pending"]_vars

C12_Witness ==
  /\ invocations = 1
  /\ Len(history) = 3
  /\ history[1].kind = "INSERT"
  /\ history[2].kind = "UPDATE"
  /\ history[3].kind = "DELETE"

\* ------------------------------------------------------------------------
\* C16: when the invocation ends in failure, the stored records and the
\* audit log stay as committed, the success message stays, and the
\* continuation of the form runs.
\* ------------------------------------------------------------------------
C16_NotificationFailureIsolated ==
  [][(notif = "pending" /\ notif' \in {"error_result", "thrown"}) =>
       /\ employees' = employees /\ audit' = audit
       /\ txEmployees' = employees /\ txAudit' = audit
       /\ ui'.toast = "success" /\ ui'.message = ""
       /\ ui'.continued /\ ~ ui'.submitting]_vars

C16_Witness ==
  /\ notif = "thrown"
  /\ ui.flow = "update" /\ ui.pc = "idle"
  /\ ui.toast = "success" /\ ui.continued
  /\ Len(history) = 1 /\ history[1].kind = "UPDATE"
  /\ Len(audit) = 1 /\ audit[1].action = "UPDATE"
  /\ LegacyRow \notin employees

\* ------------------------------------------------------------------------
\* C17: while the invocation is outstanding the form has already
\* completed: the continuation has run and the submitting state is
\* cleared.
\* ------------------------------------------------------------------------
C17_FormDoesNotWait ==
  notif = "pending" => (ui.continued /\ ~ ui.submitting)

\* ------------------------------------------------------------------------
\* C20: an INSERT or UPDATE the store rejects for a constraint violation
\* leaves employees and the audit log as they were, the client shows the
\* error, and the edge function is not invoked.
\* ------------------------------------------------------------------------
C20_RejectedStatementLeavesNoTrace ==
  [][(pc = "failed" /\ pc' = "idle" /\ tx.op \in {"INSERT", "UPDATE"}
        /\ tx.err \in {"unique_violation", "not_null_violation"}) =>
       /\ employees' = employees /\ audit' = audit
       /\ txEmployees' = employees /\ txAudit' = audit
       /\ ui'.toast \in {"error", "row_error"} /\ ui'.message = tx.err
       /\ ~ ui'.continued
       /\ invocations' = invocations /\ notif' = notif]_vars

C20_Witness ==
  /\ ui.flow = "update" /\ ui.pc = "idle"
  /\ ui.toast = "error" /\ ui.message = "unique_violation"
  /\ invocations = 0
  /\ Len(history) = 1 /\ history[1].kind = "INSERT"
  /\ Len(audit) = 1
  /\ LegacyRow \in employees

\* ------------------------------------------------------------------------
\* C21: a DELETE by a caller without the admin role removes no record and
\* writes no audit entry; whenever a record disappears, the statement is a
\* DELETE by a caller holding the admin role.
\* ------------------------------------------------------------------------
C21_OnlyAdminsDelete ==
  [][/\ (tx.op = "DELETE" /\ ~ has_role(tx.caller, "admin")) =>
          (employees' = employees /\ audit' = audit /\ history' = history)
     /\ (\E r \in employees : \A r2 \in employees' : r2.id # r.id) =>
          (tx.op = "DELETE" /\ has_role(tx.caller, "admin"))]_vars

\* A user without the admin role has run a DELETE on a stored record that
\* has an audit entry.
C21_Witness ==
  /\ pc = "done" /\ tx.op = "DELETE" /\ tx.rows = 0
  /\ ~ has_role(tx.caller, "admin")
  /\ \E r \in employees : r.id = tx.target /\ r.created_by = UserId(tx.caller)
  /\ \E k \in 1..Len(audit) : audit[k].employee_id = tx.target
  /\ txEmployees = employees /\ txAudit = audit

EntryRecord(e) ==
  IF e.action = "DELETE" THEN e.old_data.obj["id"] ELSE e.new_data.obj["id"]

\* The committed audit entries of record i, in commit order.
EntriesOf(log, i) ==
  LET About(e) == EntryRecord(e) = JsonOf(RowId(i))
  IN SelectSeq(log, About)

\* The entries of record i are a chain that ends at the stored row.
Chain(log, rows, i) ==
  LET es == EntriesOf(log, i)
  IN /\ es # <<>> =>
          IF i = 1 THEN es[1].action \in {"UPDATE", "DELETE"}
                        /\ es[1].old_data = JsonbObj(ToJsonb(LegacyRow))
                   ELSE es[1].action = "INSERT"
     /\ \A k \in 2..Len(es) :
          /\ es[k].action \in {"UPDATE", "DELETE"}
          /\ es[k].old_data = es[k - 1].new_data
     /\ rows[i] # NoRow =>
          IF es = <<>> THEN i = 1 /\ rows[i] = LegacyRow
                       ELSE es[Len(es)].new_data = JsonbObj(ToJsonb(rows[i]))
     /\ rows[i] = NoRow => (es = <<>> \/ es[Len(es)].action = "DELETE")

\* ------------------------------------------------------------------------
\* C24: in every interleaving the committed audit entries of a record form
\* a chain (an INSERT entry first for a record inserted here, every later
\* entry's old snapshot the new snapshot of the one before, the last new
\* snapshot the stored row), and a transaction on one record changes
\* neither the row nor the entries of the other.
\* ------------------------------------------------------------------------
C24_AuditChain ==
  [][/\ \A i \in KIds : Chain(kAudit', kRows', i)
     /\ \A s \in Sessions, i \in KIds :
          (kSess[s].pc = "written" /\ kSess'[s].pc = "idle" /\ kSess[s].id # i) =>
            /\ kRows'[i] = kRows[i]
            /\ Len(EntriesOf(kAudit', i)) = Len(EntriesOf(kAudit, i))]_vars

\* Both sessions have committed an update of the inserted record, one
\* beginning before and committing after the other, and the record was
\* deleted at the end.
C24_Witness ==
  /\ Len(kAudit) = 4
  /\ kAudit[1].action = "INSERT" /\ kAudit[2].action = "UPDATE"
  /\ kAudit[3].action = "UPDATE" /\ kAudit[4].action = "DELETE"
  /\ \A k \in 1..4 : EntryRecord(kAudit[k]) = JsonOf(RowId(2))
  /\ kAudit[2].created_at.n > kAudit[3].created_at.n
  /\ kRows[2] = NoRow

\* ------------------------------------------------------------------------
\* C25: every invocation by the edit form follows an UPDATE that changed
\* the record and wrote an UPDATE audit entry whose old snapshot is the
\* snapshot the form sends; an UPDATE that matches no row is not announced
\* as a success and invokes nothing.
\* ------------------------------------------------------------------------
C25_InvocationMatchesUpdate ==
  [][/\ invocations' # invocations =>
          /\ tx.op = "UPDATE" /\ tx.rows = 1
          /\ Len(audit') = Len(audit) + 1
          /\ audit'[Len(audit')].action = "UPDATE"
          /\ audit'[Len(audit')].old_data = JsonbObj(ToJsonb(ui.employee))
     /\ (ui.flow = "update" /\ ui.pc = "store" /\ pc = "done" /\ tx.rows = 0) =>
          (ui'.toast # "success" /\ invocations' = invocations)]_vars

\* ------------------------------------------------------------------------
\* C26: once every fetch has returned and every event is delivered, the
\* list holds exactly the stored records, each once, in their current
\* versions.
\* ------------------------------------------------------------------------
C26_ListConvergesToStore ==
  (rtEvents = <<>> /\ \A f \in 1..Len(rtFetch) : rtFetch[f].st = "returned") =>
    /\ {rtList[k] : k \in 1..Len(rtList)} = {RtRows(rtStore)[k] : k \in 1..Len(RtRows(rtStore))}
    /\ Len(rtList) = Len(RtRows(rtStore))

\* ------------------------------------------------------------------------
\* C27: the list never holds two entries with the same record id.
\* ------------------------------------------------------------------------
C27_NoDuplicateIds ==
  \A k, l \in 1..Len(rtList) : k # l => rtList[k].id # rtList[l].id

\* ------------------------------------------------------------------------
\* C28: a sign-up gives the new user one profile and the employee role and
\* nothing else; every other change of user_roles is the statement of a
\* caller who held the admin role before it.  So no user gains the admin
\* role through sign-ups and statements of callers without it.
\* ------------------------------------------------------------------------
C28_RolesOnlyByAdmins ==
  [][/\ users' # users =>
          \E u \in Users \ users :
            /\ users' = users \cup {u}
            /\ DOMAIN profiles' = DOMAIN profiles \cup {u}
            /\ u \notin DOMAIN profiles
            /\ roles' = roles \cup {<<u, "employee">>}
            /\ \A r \in app_role : <<u, r>> \notin roles
     /\ (users' = users /\ roles' # roles) =>
          /\ has_role(rStmt'.caller, "admin")
          /\ rStmt'.err = "none" /\ rStmt'.rows = 1]_vars

\* "emp" signed up, tried to give itself the admin role and was refused.
C28_Witness ==
  /\ "emp" \in DOMAIN profiles
  /\ {r \in app_role : <<"emp", r>> \in roles} = {"employee"}
  /\ rStmt.caller = "emp" /\ rStmt.op = "INSERT" /\ rStmt.row = <<"emp", "admin">>
  /\ rStmt.err = "rls"

\* Positions of the rows of the sheet whose insert did not succeed.
FailedPositions ==
  SelectSeq([k \in 1..Len(imOutcome) |-> k], LAMBDA k : imOutcome[k] # "ok")

\* ------------------------------------------------------------------------
\* C29: an import attempts every row whatever happened to earlier rows;
\* when it ends, success + failed is the number of rows, there is one
\* error message per failed row and it names that row's position; the
\* importing flag is false after an import, completed or thrown.
\* ------------------------------------------------------------------------
C29_ImportCounts ==
  /\ imPc \in {"done", "failed"} => ~ imImporting
  /\ imPc \in {"parse", "loop"} => imImporting
  /\ imPc = "done" =>
       /\ Len(imOutcome) = imStatus.total
       /\ imStatus.success + imStatus.failed = imStatus.total
       /\ Len(imStatus.errors) = imStatus.failed
       /\ imStatus.errors = FailedPositions

\* An import ended in which a row succeeded, the next failed and the one
\* after it was still attempted.
C29_Witness ==
  /\ imPc = "done"
  /\ \E k \in 1..Len(imOutcome) - 2 :
       imOutcome[k] = "ok" /\ imOutcome[k + 1] # "ok" /\ imOutcome[k + 2] = "ok"

\* ------------------------------------------------------------------------
\* C30: a check reports the host reachable only if its HTTP or its HTTPS
\* request completed without error, however fast the requests failed, and
\* loading is false after every check.
\* ------------------------------------------------------------------------
C30_ReachableOnlyIfCompleted ==
  /\ pgPc \in {"idle", "done"} => ~ pgLoading
  /\ (pgPc = "done" /\ pgResult.success) => pgCompleted # {}

====
